---- MODULE Spec2Model ----
(***************************************************************************)
(* LEDGER (hindustanwheelz): the App component's state (the entry list,    *)
(* the month filter, the two forms, the delete confirmation), its handlers *)
(* and the derived data (availableMonths, filteredEntries, stats).         *)
(*                                                                         *)
(* Representation.                                                         *)
(*  - A string the code inspects (date, invoiceNo, size) is a sequence of  *)
(*    one-character strings; free text (notes, pattern) is a TLA+ string.  *)
(*  - A LedgerEntry is a record that holds exactly the keys the object     *)
(*    holds: an optional property that is missing is a missing key.        *)
(*  - Money is an integer count of units of 0.005: the tolerance 0.01 of   *)
(*    the exact-match test is Tolerance = 2 units, one rupee is Rupee.     *)
(*  - generateId() draws a random 9-character id; the n-th call is          *)
(*    modelled as returning n (fresh: a random collision is not modelled). *)
(*    The ids handleSubmitInvoice gives the line items are left out: no    *)
(*    code reads InvoiceItem.id.                                           *)
(*  - A Date's time is counted in days, not milliseconds.                  *)
(*  - An open Modal covers the page: the page's buttons are out of reach   *)
(*    while a form or the delete confirmation is open (SpecEdit apart).    *)
(*  - The effects (load on mount, save on every new entry list) are steps  *)
(*    of their own, taken before the next event: phase tells which are     *)
(*    due. A render that throws leaves phase = "crashed".                  *)
(*  - A text in localStorage or in a backup file is a record that says     *)
(*    what JSON.parse makes of it.                                         *)
(*  - A handler reads the entries of the render that made it: captured     *)
(*    holds them while a render scheduled by reader.onload is due.         *)
(*                                                                         *)
(* Specifications.                                                         *)
(*  - Spec: the application from an empty store, every handler.            *)
(*  - SpecView: the list, the cards and the month filter over a stored     *)
(*    ledger.                                                              *)
(*  - SpecCN: a new payment or credit note recorded over a stored ledger.  *)
(*  - SpecStore: startup over every kind of stored item, restore from a    *)
(*    backup file, and the handlers that change the entry list.            *)
(*  - SpecEdit: editing over a stored ledger with the rows' Edit buttons   *)
(*    usable while a form is open.                                         *)
(*  - SpecRace: a restore that arrives while the form of a new transaction *)
(*    is open, the form submitted before or after the render it scheduled. *)
(*  - SpecCreate: creations only, from the empty ledger.                   *)
(***************************************************************************)
EXTENDS Integers, Sequences, FiniteSets, TLC

VARIABLES
  entries,                \* useState<LedgerEntry[]>              (line 12)
  filterDate,             \* 'YYYY-MM' or ''                      (line 16)
  isInvoiceModalOpen,     \*                                      (line 19)
  isTransactionModalOpen, \*                                      (line 20)
  itemToDelete,           \* id or Null                           (line 23)
  editingId,              \* id or Null                           (line 26)
  invoiceDate,            \* invoice form                         (line 29)
  invoiceNum,             \*                                      (line 30)
  invoiceStatus,          \*                                      (line 31)
  newInvoiceItems,        \*                                      (line 32)
  transactionType,        \* transaction form                     (line 37)
  transDate,              \*                                      (line 38)
  transAmount,            \* the input's text: <<>> is '', <<n>> the decimal text of n
  transNotes,             \*                                      (line 40)
  nextId,                 \* the number of the next generateId() call
  budget,                 \* the generateId() calls left to this behaviour
  stored,                 \* the item of localStorage under STORAGE_KEY (line 9)
  phase,                  \* "mount", "save": effects are due; "idle"; "crashed"
  fileRead,               \* the text a FileReader is reading, or NoFile
  captured                \* the entries the handlers' closures hold, when not the current ones

vars == <<entries, filterDate, isInvoiceModalOpen, isTransactionModalOpen,
          itemToDelete, editingId, invoiceDate, invoiceNum, invoiceStatus,
          newInvoiceItems, transactionType, transDate, transAmount, transNotes,
          nextId, budget, stored, phase, fileRead, captured>>

storeVars == <<stored, fileRead, captured>>

formVars == <<invoiceDate, invoiceNum, invoiceStatus, newInvoiceItems,
              transactionType, transDate, transAmount, transNotes>>

(***************************************************************************)
(* Bounds of the model.                                                    *)
(***************************************************************************)
\* The number of generateId() calls (entries created) in one behaviour.
MaxIds == 3
\* The longest entry list the derived-data specification starts from.
MaxViewLen == 3
\* length of a stored ledger a payment or credit note is recorded over
MaxSeedLen == 3
\* The number of generateId() calls in a behaviour that only creates entries:
\* an invoice and two credit notes that split it, one after the other.
MaxCreateIds == 5

(***************************************************************************)
(* Characters and strings                                                  *)
(***************************************************************************)
Null == 0      \* null ids; ids are 1, 2, ...

DigitChars == <<"0", "1", "2", "3", "4", "5", "6", "7", "8", "9">>
UpperChars == <<"A", "B", "C", "D", "E", "F", "G", "H", "I", "J", "K", "L", "M",
                "N", "O", "P", "Q", "R", "S", "T", "U", "V", "W", "X", "Y", "Z">>
LowerChars == <<"a", "b", "c", "d", "e", "f", "g", "h", "i", "j", "k", "l", "m",
                "n", "o", "p", "q", "r", "s", "t", "u", "v", "w", "x", "y", "z">>

Range(s) == {s[i] : i \in DOMAIN s}
IndexIn(c, s) == CHOOSE i \in DOMAIN s : s[i] = c

IsDigit(c) == c \in Range(DigitChars)
IsUpper(c) == c \in Range(UpperChars)
IsLower(c) == c \in Range(LowerChars)
IsSpace(c) == c = " "
DigitVal(c) == IndexIn(c, DigitChars) - 1

\* The UTF-16 code unit of a character (the ASCII characters the model uses).
CharCode(c) ==
  CASE IsDigit(c) -> 47 + IndexIn(c, DigitChars)
    [] IsUpper(c) -> 64 + IndexIn(c, UpperChars)
    [] IsLower(c) -> 96 + IndexIn(c, LowerChars)
    [] c = " " -> 32
    [] c = "," -> 44
    [] c = "-" -> 45
    [] c = "." -> 46
    [] c = "/" -> 47

\* a < b on JavaScript strings: code units compared left to right, a proper
\* prefix first.
RECURSIVE StrLess(_, _)
StrLess(a, b) ==
  IF b = <<>> THEN FALSE
  ELSE IF a = <<>> THEN TRUE
  ELSE IF CharCode(Head(a)) # CharCode(Head(b))
       THEN CharCode(Head(a)) < CharCode(Head(b))
       ELSE StrLess(Tail(a), Tail(b))

\* String.prototype.startsWith
StartsWith(s, p) == Len(p) <= Len(s) /\ SubSeq(s, 1, Len(p)) = p

\* String.prototype.substring(0, n)
Substring0(s, n) == SubSeq(s, 1, IF n < Len(s) THEN n ELSE Len(s))

\* String.prototype.includes, for one character
Includes(s, c) == \E i \in DOMAIN s : s[i] = c

\* String.prototype.toUpperCase
ToUpperCase(s) ==
  [i \in DOMAIN s |-> IF IsLower(s[i]) THEN UpperChars[IndexIn(s[i], LowerChars)]
                      ELSE s[i]]

\* String.prototype.trim
RECURSIVE TrimStart(_)
TrimStart(s) == IF s # <<>> /\ IsSpace(Head(s)) THEN TrimStart(Tail(s)) ELSE s
RECURSIVE TrimEnd(_)
TrimEnd(s) ==
  IF s # <<>> /\ IsSpace(s[Len(s)]) THEN TrimEnd(SubSeq(s, 1, Len(s) - 1)) ELSE s
Trim(s) == TrimEnd(TrimStart(s))

\* The text of a character sequence, as one TLA+ string.
RECURSIVE Text(_)
Text(s) == IF s = <<>> THEN "" ELSE Head(s) \o Text(Tail(s))

\* The decimal digits of a natural number, and of one padded to w digits.
RECURSIVE Decimal(_)
Decimal(n) ==
  IF n < 10 THEN <<DigitChars[n + 1]>>
  ELSE Decimal(n \div 10) \o <<DigitChars[(n % 10) + 1]>>
RECURSIVE PadStart(_, _)
PadStart(s, w) == IF Len(s) >= w THEN s ELSE PadStart(<<"0">> \o s, w)

\* The value of a run of decimal digits.
RECURSIVE DigitsValue(_)
DigitsValue(s) ==
  IF s = <<>> THEN 0 ELSE 10 * DigitsValue(SubSeq(s, 1, Len(s) - 1)) + DigitVal(s[Len(s)])

(***************************************************************************)
(* Dates: ISO 'YYYY-MM-DD' strings, as the date inputs deliver them        *)
(***************************************************************************)
\* Days since 1970-01-01 of a civil date, and the civil date of a day number
\* (the proleptic Gregorian calendar of the Date object).
DaysFromCivil(y, m, d) ==
  LET yy  == IF m <= 2 THEN y - 1 ELSE y
      era == yy \div 400
      yoe == yy - era * 400
      mp  == (m + 9) % 12
      doy == (153 * mp + 2) \div 5 + d - 1
      doe == yoe * 365 + yoe \div 4 - yoe \div 100 + doy
  IN  era * 146097 + doe - 719468

CivilFromDays(z) ==
  LET zz  == z + 719468
      era == zz \div 146097
      doe == zz - era * 146097
      yoe == (doe - doe \div 1460 + doe \div 36524 - doe \div 146096) \div 365
      doy == doe - (365 * yoe + yoe \div 4 - yoe \div 100)
      mp  == (5 * doy + 2) \div 153
      d   == doy - (153 * mp + 2) \div 5 + 1
      m   == IF mp < 10 THEN mp + 3 ELSE mp - 9
      y   == yoe + era * 400 + (IF m <= 2 THEN 1 ELSE 0)
  IN  [y |-> y, m |-> m, d |-> d]

\* 'YYYY-MM-DD' of a civil date: toISOString().split('T')[0].
IsoDate(y, m, d) ==
  PadStart(Decimal(y), 4) \o <<"-">> \o PadStart(Decimal(m), 2) \o <<"-">>
    \o PadStart(Decimal(d), 2)

\* new Date(dateString).getTime() of an ISO date is UTC midnight of that day;
\* the model counts it in days (the millisecond count is 86 400 000 times it).
GetTime(s) ==
  DaysFromCivil(DigitsValue(SubSeq(s, 1, 4)), DigitsValue(SubSeq(s, 6, 7)),
                DigitsValue(SubSeq(s, 9, 10)))

\* addDays(dateString, days): setDate(getDate() + days) moves the local civil
\* date by `days` days; in a zone without daylight saving (IST) the UTC date
\* that toISOString() prints moves by the same number of days.
addDays(s, days) ==
  LET c == CivilFromDays(GetTime(s) + days)
  IN  IsoDate(c.y, c.m, c.d)

(***************************************************************************)
(* Records: optional properties, object spread                             *)
(***************************************************************************)
Has(e, k) == k \in DOMAIN e

\* e.k || 0 for a number, e.k || '' for a string: the property when it is
\* present (0 and '' are their own defaults), the default when it is missing.
NumOr0(e, k) == IF Has(e, k) THEN e[k] ELSE 0
StrOrEmpty(e, k) == IF Has(e, k) THEN e[k] ELSE <<>>
TextOrEmpty(e, k) == IF Has(e, k) THEN e[k] ELSE ""

\* { ...e, ...u }
Spread(e, u) ==
  [k \in DOMAIN e \cup DOMAIN u |-> IF k \in DOMAIN u THEN u[k] ELSE e[k]]

\* The object without the properties ks (a property set to undefined reads as
\* undefined and is dropped by JSON.stringify, as a missing one).
Without(e, ks) == [k \in DOMAIN e \ ks |-> e[k]]

\* Array.prototype.filter
FilterSeq(s, Keep(_)) ==
  LET F[i \in 0..Len(s)] ==
        IF i = 0 THEN <<>>
        ELSE IF Keep(s[i]) THEN Append(F[i - 1], s[i]) ELSE F[i - 1]
  IN  F[Len(s)]

\* The sum of F over a sequence, left to right (forEach with an accumulator).
SumSeq(s, F(_)) ==
  LET S[i \in 0..Len(s)] == IF i = 0 THEN 0 ELSE S[i - 1] + F(s[i])
  IN  S[Len(s)]

\* Array.prototype.sort with comparator Cmp (negative: a first): the sort is
\* stable, so for a consistent comparator the result is that of insertion
\* sort, each element placed after the elements it does not precede.
StableSort(s, Cmp(_, _)) ==
  LET Insert(x, t) ==
        LET before == {j \in 1..Len(t) : Cmp(x, t[j]) < 0}
            at == IF before = {} THEN Len(t) + 1
                  ELSE CHOOSE j \in before : \A k \in before : j <= k
        IN  SubSeq(t, 1, at - 1) \o <<x>> \o SubSeq(t, at, Len(t))
      S[i \in 0..Len(s)] == IF i = 0 THEN <<>> ELSE Insert(s[i], S[i - 1])
  IN  S[Len(s)]
\* Array.prototype.reverse
Reverse(s) == [i \in DOMAIN s |-> s[Len(s) + 1 - i]]

\* Array.prototype.findIndex, 1-based; 0 when no element satisfies P (-1 in the code)
FindIndex(s, P(_)) ==
  IF \E i \in DOMAIN s : P(s[i])
  THEN CHOOSE i \in DOMAIN s : P(s[i]) /\ \A j \in 1..(i - 1) : ~P(s[j])
  ELSE 0

(***************************************************************************)
(* a.localeCompare(b, undefined, { numeric: true, sensitivity: 'base' })   *)
(* The collator reads a string as a list of collation elements: a maximal  *)
(* run of digits is one element ordered by its numeric value (leading      *)
(* zeros do not count), a letter is one element ordered alphabetically     *)
(* with upper and lower case equal (sensitivity 'base'), a space or        *)
(* punctuation mark is one element. Elements order as space, punctuation,  *)
(* numbers, letters; a proper prefix orders first.                         *)
(***************************************************************************)
PunctuationOrder == <<" ", "-", ",", ".", "/">>

RECURSIVE DigitRunLen(_)
DigitRunLen(s) ==
  IF s # <<>> /\ IsDigit(Head(s)) THEN 1 + DigitRunLen(Tail(s)) ELSE 0

RECURSIVE CollationElements(_)
CollationElements(s) ==
  IF s = <<>> THEN <<>>
  ELSE IF IsDigit(Head(s))
       THEN LET n == DigitRunLen(s)
            IN  <<<<2, DigitsValue(SubSeq(s, 1, n))>>>>
                  \o CollationElements(SubSeq(s, n + 1, Len(s)))
  ELSE IF IsUpper(Head(s))
       THEN <<<<3, IndexIn(Head(s), UpperChars)>>>> \o CollationElements(Tail(s))
  ELSE IF IsLower(Head(s))
       THEN <<<<3, IndexIn(Head(s), LowerChars)>>>> \o CollationElements(Tail(s))
  ELSE <<<<1, IndexIn(Head(s), PunctuationOrder)>>>> \o CollationElements(Tail(s))

RECURSIVE CompareElements(_, _)
CompareElements(x, y) ==
  IF x = <<>> /\ y = <<>> THEN 0
  ELSE IF x = <<>> THEN -1
  ELSE IF y = <<>> THEN 1
  ELSE IF Head(x)[1] # Head(y)[1] THEN (IF Head(x)[1] < Head(y)[1] THEN -1 ELSE 1)
  ELSE IF Head(x)[2] # Head(y)[2] THEN (IF Head(x)[2] < Head(y)[2] THEN -1 ELSE 1)
  ELSE CompareElements(Tail(x), Tail(y))

\* Variant: the strings compared by code units, as String.prototype < does.
localeCompareCodeUnits(a, b) ==
  IF StrLess(a, b) THEN -1 ELSE IF StrLess(b, a) THEN 1 ELSE 0

\* a.localeCompare(b, undefined, {numeric: true, sensitivity: 'base'})
localeCompare(a, b) == CompareElements(CollationElements(a), CollationElements(b))

(***************************************************************************)
(* Derived data (useMemo): availableMonths, filteredEntries, stats         *)
(***************************************************************************)
\* The default comparator of Array.prototype.sort on strings.
DefaultCompare(a, b) == IF StrLess(a, b) THEN -1 ELSE IF StrLess(b, a) THEN 1 ELSE 0

\* Variant: an array of the values, not a Set: every value as often as added.
DistinctKeepsAll(s) == s

\* Array.from(new Set(...)): the distinct values in order of first insertion.
Distinct(s) ==
  LET D[i \in 0..Len(s)] ==
        IF i = 0 THEN <<>>
        ELSE IF s[i] \in Range(D[i - 1]) THEN D[i - 1] ELSE Append(D[i - 1], s[i])
  IN  D[Len(s)]

availableMonthsOf(es) ==
  LET dated  == FilterSeq(es, LAMBDA e : e.date # <<>>)
      months == [i \in DOMAIN dated |-> Substring0(dated[i].date, 7)]
  IN  Reverse(StableSort(Distinct(months), DefaultCompare))

availableMonths == availableMonthsOf(entries)

\* The comparator of filteredEntries: date, then invoice number.
CompareEntries(a, b) ==
  IF a.date # b.date
  THEN (IF StrLess(a.date, b.date) THEN -1 ELSE 1)
  ELSE localeCompare(StrOrEmpty(a, "invoiceNo"), StrOrEmpty(b, "invoiceNo"))

filteredEntriesOf(es, fd) ==
  LET data == IF fd # <<>>
              THEN FilterSeq(es, LAMBDA e : StartsWith(e.date, fd))
              ELSE es
  IN  StableSort(data, CompareEntries)

\* Variant: without a filter, data is the entries array itself, not a copy.
DataIsEntriesWithoutFilter(fd) == fd = <<>>

\* Whether data, which sort() reorders in place, is the very array of the
\* entries state: never, filter() returns a new array and [...entries] is a copy.
DataIsEntries(fd) == FALSE

\* The entries array after the memo has run.
entriesAfterMemo(es, fd) ==
  IF DataIsEntries(fd) THEN StableSort(es, CompareEntries) ELSE es

filteredEntries == filteredEntriesOf(entries, filterDate)
\* Variant: every invoice counts as an original sale.
IsOriginalAlways(e) == TRUE

\* !e.originalRefId: the entry is an original sale, not a balance-forward split
IsOriginal(e) == ~Has(e, "originalRefId") \/ e.originalRefId = Null

\* The line items the category logic reads: e.items when present and not
\* empty, otherwise one implicit item made of the scalar fields.
itemsToProcess(e) ==
  IF Has(e, "items") /\ Len(e.items) > 0
  THEN e.items
  ELSE <<[size |-> StrOrEmpty(e, "size"), pattern |-> TextOrEmpty(e, "pattern"),
          quantity |-> NumOr0(e, "quantity"), unitPrice |-> NumOr0(e, "unitPrice")]>>

\* Variant: D is looked for before R.
CategoryDFirst(item) ==
  LET size == Trim(ToUpperCase(StrOrEmpty(item, "size")))
  IN  IF size = <<>> THEN "NONE"
      ELSE IF Includes(size, "D") THEN "NYLON"
      ELSE IF Includes(size, "R") THEN "PCR"
      ELSE IF ~\E i \in DOMAIN size : IsUpper(size[i]) THEN "2W"
      ELSE "NONE"

\* The bucket one line item is counted in: "PCR", "NYLON", "2W" or "NONE".
Category(item) ==
  LET size == Trim(ToUpperCase(StrOrEmpty(item, "size")))
  IN  IF size = <<>> THEN "NONE"
      ELSE IF Includes(size, "R") THEN "PCR"
      ELSE IF Includes(size, "D") THEN "NYLON"
      ELSE IF ~\E i \in DOMAIN size : IsUpper(size[i]) THEN "2W"
      ELSE "NONE"

\* What one visible entry adds to the counter of category cat.
CategoryQty(e, cat) ==
  IF e.type = "INVOICE" /\ IsOriginal(e)
  THEN SumSeq(itemsToProcess(e),
              LAMBDA item : IF Category(item) = cat THEN NumOr0(item, "quantity") ELSE 0)
  ELSE 0

InvoicedOf(e) ==
  IF e.type = "INVOICE" /\ IsOriginal(e) THEN NumOr0(e, "invoiceAmount") ELSE 0
PaidOf(e) == IF e.type = "PAYMENT" THEN NumOr0(e, "paymentAmount") ELSE 0
CNOf(e) == IF e.type = "CN" THEN NumOr0(e, "cnAmount") ELSE 0

\* Variant: the second pass runs over the visible list too.
statsOfVisible(visible, all) ==
  [totalInvoiced |-> SumSeq(visible, InvoicedOf),
   totalPaid     |-> SumSeq(visible, PaidOf),
   totalCN       |-> SumSeq(visible, CNOf),
   outstanding   |-> SumSeq(visible, InvoicedOf) - SumSeq(visible, PaidOf)
                       - SumSeq(visible, CNOf),
   qtyPcr        |-> SumSeq(visible, LAMBDA e : CategoryQty(e, "PCR")),
   qtyNylon      |-> SumSeq(visible, LAMBDA e : CategoryQty(e, "NYLON")),
   qty2Wheeler   |-> SumSeq(visible, LAMBDA e : CategoryQty(e, "2W"))]

\* stats: the first pass runs over the visible list, the second over all entries.
statsOf(visible, all) ==
  LET globalInvoiced == SumSeq(all, InvoicedOf)
      globalPaid     == SumSeq(all, PaidOf)
      globalCN       == SumSeq(all, CNOf)
  IN  [totalInvoiced |-> SumSeq(visible, InvoicedOf),
       totalPaid     |-> SumSeq(visible, PaidOf),
       totalCN       |-> SumSeq(visible, CNOf),
       outstanding   |-> globalInvoiced - globalPaid - globalCN,
       qtyPcr        |-> SumSeq(visible, LAMBDA e : CategoryQty(e, "PCR")),
       qtyNylon      |-> SumSeq(visible, LAMBDA e : CategoryQty(e, "NYLON")),
       qty2Wheeler   |-> SumSeq(visible, LAMBDA e : CategoryQty(e, "2W"))]

stats == statsOf(filteredEntries, entries)
(***************************************************************************)
(* Money, ids, formatting                                                  *)
(***************************************************************************)
\* 0.01, the tolerance of the exact-match test, in money units of 0.005
Tolerance == 2
\* min="0.01" of the amount input, in money units
MinAmount == 2
\* One rupee, in money units.
Rupee == 100 * Tolerance

\* Math.round of an amount in rupees: floor(x + 0.5), in money units.
MathRound(u) == ((2 * u + Rupee) \div (2 * Rupee)) * Rupee

Abs(x) == IF x < 0 THEN -x ELSE x

\* Digits grouped the en-IN way: the last three, then pairs.
RECURSIVE GroupPairs(_)
GroupPairs(d) ==
  IF Len(d) <= 2 THEN d
  ELSE GroupPairs(SubSeq(d, 1, Len(d) - 2)) \o <<",">> \o SubSeq(d, Len(d) - 1, Len(d))
GroupIndian(d) ==
  IF Len(d) <= 3 THEN d
  ELSE GroupPairs(SubSeq(d, 1, Len(d) - 3)) \o <<",">> \o SubSeq(d, Len(d) - 2, Len(d))

\* The rupee sign (U+20B9) that Intl.NumberFormat prints, spelt in ASCII.
RupeeSign == "Rs"

\* formatCurrency(amount) for a number: en-IN, INR, two fraction digits, the
\* amount rounded to the paisa (half away from zero).
formatCurrency(u) ==
  LET paise == (Abs(u) * 100 + Rupee \div 2) \div Rupee
  IN  (IF u < 0 THEN "-" ELSE "") \o RupeeSign \o Text(GroupIndian(Decimal(paise \div 100)))
        \o "." \o Text(PadStart(Decimal(paise % 100), 2))

\* generateId(): the n-th call returns the id n.
generateId(n) == n

(***************************************************************************)
(* The credit-note logic of handleSubmitTransaction (lines 333-383)        *)
(***************************************************************************)
\* Variant: every invoice is a candidate, whatever its status.
IsAnyInvoice(e) == e.type = "INVOICE"

IsPendingInvoice(e) == e.type = "INVOICE" /\ Has(e, "status") /\ e.status = "PENDING"

\* Variant: the latest date first.
CompareByTimeDescending(a, b) == GetTime(b.date) - GetTime(a.date)

\* The comparator of the pending-invoice sort: the difference of the dates' times.
CompareByTime(a, b) == GetTime(a.date) - GetTime(b.date)

\* pendingInvoices, as positions in updatedEntries (the array holds the very
\* objects of updatedEntries): the pending invoices, earliest date first.
pendingInvoices(es) ==
  LET idx == FilterSeq([i \in DOMAIN es |-> i], LAMBDA i : IsPendingInvoice(es[i]))
  IN  StableSort(idx, LAMBDA i, j : CompareByTime(es[i], es[j]))

\* The position of the entry the credit note mutates: that of the first entry
\* whose id is the target's id; 0 when there is no pending invoice.
invIndexOf(es) ==
  IF pendingInvoices(es) = <<>> THEN 0
  ELSE FindIndex(es, LAMBDA e : e.id = es[pendingInvoices(es)[1]].id)

\* Variant: the marker put in the place of the notes.
SettledNoteOverwrites(e) == " [Settled by CN]"

\* " [Settled by CN]" and " [Adj by CN <amount>]" appended to the notes.
SettledNote(e) == TextOrEmpty(e, "notes") \o " [Settled by CN]"
AdjustedNote(e, amountVal) ==
  TextOrEmpty(e, "notes") \o " [Adj by CN " \o formatCurrency(amountVal) \o "]"

\* Variant: the balance-forward invoice keeps the target's invoiceAmount.
balanceInvoiceWholeAmount(targetInvoice, balanceAmount, newId) ==
  Spread(targetInvoice,
         [id            |-> newId,
          invoiceNo     |-> targetInvoice.invoiceNo \o <<"-", "B", "A", "L">>,
          quantity      |-> 1,
          unitPrice     |-> balanceAmount,
          size          |-> <<"B", "a", "l", "a", "n", "c", "e", " ",
                              "F", "o", "r", "w", "a", "r", "d">>,
          pattern       |-> "-",
          items         |-> <<>>,
          originalRefId |-> targetInvoice.id,
          status        |-> "PENDING",
          notes         |-> "Balance after CN adjustment on "
                              \o Text(targetInvoice.invoiceNo)])

\* Variant: the balance-forward invoice keeps the notes of the target.
balanceInvoiceTargetNotes(targetInvoice, balanceAmount, newId) ==
  Spread(targetInvoice,
         [id            |-> newId,
          invoiceNo     |-> targetInvoice.invoiceNo \o <<"-", "B", "A", "L">>,
          invoiceAmount |-> balanceAmount,
          quantity      |-> 1,
          unitPrice     |-> balanceAmount,
          size          |-> <<"B", "a", "l", "a", "n", "c", "e", " ",
                              "F", "o", "r", "w", "a", "r", "d">>,
          pattern       |-> "-",
          items         |-> <<>>,
          originalRefId |-> targetInvoice.id,
          status        |-> "PENDING"])

\* Variant: the balance-forward invoice refers to the invoice its target was
\* split from, when the target is a balance-forward invoice itself.
balanceInvoiceOntoRoot(targetInvoice, balanceAmount, newId) ==
  Spread(targetInvoice,
         [id            |-> newId,
          invoiceNo     |-> targetInvoice.invoiceNo \o <<"-", "B", "A", "L">>,
          invoiceAmount |-> balanceAmount,
          quantity      |-> 1,
          unitPrice     |-> balanceAmount,
          size          |-> <<"B", "a", "l", "a", "n", "c", "e", " ",
                              "F", "o", "r", "w", "a", "r", "d">>,
          pattern       |-> "-",
          items         |-> <<>>,
          originalRefId |-> (IF Has(targetInvoice, "originalRefId")
                             THEN targetInvoice.originalRefId ELSE targetInvoice.id),
          status        |-> "PENDING",
          notes         |-> "Balance after CN adjustment on "
                              \o Text(targetInvoice.invoiceNo)])

\* The balance-forward invoice: the target object spread, then the overrides.
balanceInvoice(targetInvoice, balanceAmount, newId) ==
  Spread(targetInvoice,
         [id            |-> newId,
          invoiceNo     |-> targetInvoice.invoiceNo \o <<"-", "B", "A", "L">>,
          invoiceAmount |-> balanceAmount,
          quantity      |-> 1,
          unitPrice     |-> balanceAmount,
          size          |-> <<"B", "a", "l", "a", "n", "c", "e", " ",
                              "F", "o", "r", "w", "a", "r", "d">>,
          pattern       |-> "-",
          items         |-> <<>>,
          originalRefId |-> targetInvoice.id,
          status        |-> "PENDING",
          notes         |-> "Balance after CN adjustment on "
                              \o Text(targetInvoice.invoiceNo)])

\* Variant: the exact-match test without its tolerance.
applyCreditNoteExact(es, amountVal, cnEntry, balanceId) ==
  LET pending == pendingInvoices(es)
  IN  IF pending # <<>> /\ amountVal > 0
      THEN LET ti        == pending[1]
               invIndex  == invIndexOf(es)
               invAmount == NumOr0(es[ti], "invoiceAmount")
               settled   == [es EXCEPT ![invIndex] =
                               Spread(@, [status |-> "PAID", notes |-> SettledNote(@)])]
               adjusted  == [es EXCEPT ![invIndex] =
                               Spread(@, [status |-> "ADJUSTED",
                                          notes  |-> AdjustedNote(@, amountVal)])]
           IN  IF amountVal = invAmount THEN Append(settled, cnEntry)
               ELSE IF amountVal < invAmount
               THEN Append(Append(adjusted,
                                  balanceInvoice(adjusted[ti], invAmount - amountVal,
                                                 balanceId)),
                           cnEntry)
               ELSE Append(settled, cnEntry)
      ELSE Append(es, cnEntry)

\* Variant: a larger credit note settles every pending invoice.
applyCreditNoteToAll(es, amountVal, cnEntry, balanceId) ==
  LET pending == pendingInvoices(es)
  IN  IF pending # <<>> /\ amountVal > 0
      THEN LET ti        == pending[1]
               invIndex  == invIndexOf(es)
               invAmount == NumOr0(es[ti], "invoiceAmount")
               settled   == [es EXCEPT ![invIndex] =
                               Spread(@, [status |-> "PAID", notes |-> SettledNote(@)])]
               adjusted  == [es EXCEPT ![invIndex] =
                               Spread(@, [status |-> "ADJUSTED",
                                          notes  |-> AdjustedNote(@, amountVal)])]
               allPaid   == [i \in DOMAIN es |->
                               IF IsPendingInvoice(es[i])
                               THEN Spread(es[i], [status |-> "PAID",
                                                   notes  |-> SettledNote(es[i])])
                               ELSE es[i]]
           IN  IF Abs(amountVal - invAmount) < Tolerance THEN Append(settled, cnEntry)
               ELSE IF amountVal < invAmount
               THEN Append(Append(adjusted,
                                  balanceInvoice(adjusted[ti], invAmount - amountVal,
                                                 balanceId)),
                           cnEntry)
               ELSE Append(allPaid, cnEntry)
      ELSE Append(es, cnEntry)

\* updatedEntries as setEntries receives it: the copy of es with the target
\* mutated, the balance-forward invoice pushed if any, then cnEntry pushed.
applyCreditNote(es, amountVal, cnEntry, balanceId) ==
  LET pending == pendingInvoices(es)
  IN  IF pending # <<>> /\ amountVal > 0
      THEN LET ti        == pending[1]
               invIndex  == invIndexOf(es)
               invAmount == NumOr0(es[ti], "invoiceAmount")
               settled   == [es EXCEPT ![invIndex] =
                               Spread(@, [status |-> "PAID", notes |-> SettledNote(@)])]
               adjusted  == [es EXCEPT ![invIndex] =
                               Spread(@, [status |-> "ADJUSTED",
                                          notes |-> AdjustedNote(@, amountVal)])]
           IN  IF Abs(amountVal - invAmount) < Tolerance
               THEN Append(settled, cnEntry)
               ELSE IF amountVal < invAmount
               THEN Append(Append(adjusted,
                                  balanceInvoice(adjusted[ti], invAmount - amountVal,
                                                 balanceId)),
                           cnEntry)
               ELSE Append(settled, cnEntry)
      ELSE Append(es, cnEntry)
(***************************************************************************)
(* Inputs of the application specification                                 *)
(***************************************************************************)
Chars(a, b, c) == <<a, b, c>>
InvPrefix == <<"I", "N", "V", "-">>

\* new Date().toISOString().split('T')[0]: the day the application runs
Today == IsoDate(2024, 2, 3)
\* What the user picks in a date input.
AppDates == {IsoDate(2024, 2, 3)}
\* What the user types as invoice number.
AppInvNos == {InvPrefix \o Decimal(2)}
\* What the user enters as line items: one item of 1 rupee; two items of 0.75
\* and 1.15 rupees (1.90 in all, rounded to 2).
AppItemLists ==
  {<<[size |-> Chars("r", "1", "6"), pattern |-> "", quantity |-> 1,
      unitPrice |-> Rupee]>>}
\* What the user types as payment or credit-note amount: half a rupee.
AppAmounts == {Rupee \div 2}
\* What the user types as notes.
AppNotes == {}

BlankItem == [size |-> <<>>, pattern |-> "", quantity |-> 1, unitPrice |-> 0]

(***************************************************************************)
(* The state after the first render with an empty store                    *)
(***************************************************************************)
(***************************************************************************)
(* The store. A text is a record: its json field says what JSON.parse      *)
(* makes of it ("invalid": it throws; "array"; "other": a value that is    *)
(* not an array), an array text carries its items. JSON.stringify of an    *)
(* entry list keeps every property the model holds (a property that is     *)
(* undefined is a missing key, and is left out just so).                   *)
(***************************************************************************)
\* localStorage.getItem(STORAGE_KEY) when there is no item: null
NoItem == [json |-> "none"]
\* The empty string.
EmptyText == [json |-> "empty"]
\* A text that is not JSON.
InvalidText == [json |-> "invalid"]
\* The JSON text of an object, a number, a string, a boolean or null.
OtherText == [json |-> "other"]
\* No file is being read.
NoFile == [json |-> "nofile"]

\* The handlers in place are those of a render of the current entries, or of
\* a render of an earlier array es.
Current == [stale |-> FALSE]
CapturedBy(es) == [stale |-> TRUE, entries |-> es]
\* entries as a handler reads it: the array of the render that made the handler
closureEntries == IF captured.stale THEN captured.entries ELSE entries

\* Variant: JSON.stringify that writes an empty array whatever the list.
JSONstringifyEmpty(es) == [json |-> "array", items |-> <<>>]
JSONstringify(es) == [json |-> "array", items |-> es]
\* if (saved): an item that is there and not the empty string
Truthy(text) == text.json \notin {"none", "empty"}
\* JSON.parse(text) returns, it does not throw
Parses(text) == text.json \in {"array", "other"}
\* Array.isArray(JSON.parse(text))
IsArrayText(text) == text.json = "array"
\* Variant: JSON.parse that returns an empty array for every array text.
JSONparseEmpty(text) == <<>>
\* JSON.parse of the text of an array
JSONparse(text) == text.items

\* The effects of the first render, in their order: the load effect reads
\* the item and hands what it parses to setEntries; the save effect writes
\* the entries of the first render. A loaded value that is no array makes
\* the next render throw (entries.forEach, line 63).
mountEffects ==
  /\ phase = "mount"
  /\ stored' = JSONstringify(entries)
  /\ IF Truthy(stored) /\ Parses(stored)
     THEN IF IsArrayText(stored)
          THEN /\ entries' = entriesAfterMemo(JSONparse(stored), filterDate)
               /\ phase' = "save"
          ELSE /\ entries' = entries
               /\ phase' = "crashed"
     ELSE /\ entries' = entries
          /\ phase' = "idle"
  /\ UNCHANGED <<filterDate, isInvoiceModalOpen, isTransactionModalOpen, itemToDelete,
                 editingId, formVars, nextId, budget, fileRead, captured>>

\* The render of a new entries array, whose handlers hold that array, and
\* its save effect.
saveEffect ==
  /\ phase = "save"
  /\ stored' = JSONstringify(entries)
  /\ phase' = "idle"
  /\ captured' = Current
  /\ UNCHANGED <<entries, filterDate, isInvoiceModalOpen, isTransactionModalOpen,
                 itemToDelete, editingId, formVars, nextId, budget, fileRead>>

\* handleRestoreJSON: a file is chosen and readAsText starts.
handleRestoreJSON(text) ==
  /\ fileRead = NoFile
  /\ fileRead' = text
  /\ UNCHANGED <<entries, filterDate, isInvoiceModalOpen, isTransactionModalOpen,
                 itemToDelete, editingId, formVars, nextId, budget, stored, phase,
                 captured>>

\* fileReader.onload; confirmed is the user's answer to window.confirm. The
\* callback is no React event: setEntries schedules the render, and until it
\* runs the handlers of the last render, with its entries, are in place.
fileReaderOnload(confirmed) ==
  /\ fileRead # NoFile
  /\ fileRead' = NoFile
  /\ IF Parses(fileRead) /\ IsArrayText(fileRead) /\ confirmed
     THEN /\ entries' = entriesAfterMemo(JSONparse(fileRead), filterDate)
          /\ phase' = "save"
          /\ captured' = CapturedBy(closureEntries)
     ELSE UNCHANGED <<entries, phase, captured>>
  /\ UNCHANGED <<filterDate, isInvoiceModalOpen, isTransactionModalOpen, itemToDelete,
                 editingId, formVars, nextId, budget, stored>>

\* The useState initial values of the filter, the modals and the forms.
FirstRender ==
  /\ filterDate = <<>>
  /\ isInvoiceModalOpen = FALSE
  /\ isTransactionModalOpen = FALSE
  /\ itemToDelete = Null
  /\ editingId = Null
  /\ invoiceDate = Today
  /\ invoiceNum = <<>>
  /\ invoiceStatus = "PENDING"
  /\ newInvoiceItems = <<BlankItem>>
  /\ transactionType = "PAYMENT"
  /\ transDate = Today
  /\ transAmount = <<>>
  /\ transNotes = ""

\* The first render over an empty store; the effects have not run yet.
Init ==
  /\ entries = <<>>
  /\ FirstRender
  /\ nextId = 1
  /\ budget = MaxIds
  /\ stored = NoItem
  /\ phase = "mount"
  /\ fileRead = NoFile
  /\ captured = Current

(***************************************************************************)
(* Handlers that open the forms                                            *)
(***************************************************************************)
openNewInvoice ==
  /\ editingId' = Null
  /\ invoiceDate' = Today
  /\ invoiceNum' = <<>>
  /\ invoiceStatus' = "PENDING"
  /\ newInvoiceItems' = <<BlankItem>>
  /\ isInvoiceModalOpen' = TRUE
  /\ UNCHANGED <<entries, filterDate, isTransactionModalOpen, itemToDelete,
                 transactionType, transDate, transAmount, transNotes, nextId, budget, phase, storeVars>>

openNewTransaction(type) ==
  /\ editingId' = Null
  /\ transactionType' = type
  /\ transDate' = Today
  /\ transAmount' = <<>>
  /\ transNotes' = ""
  /\ isTransactionModalOpen' = TRUE
  /\ UNCHANGED <<entries, filterDate, isInvoiceModalOpen, itemToDelete,
                 invoiceDate, invoiceNum, invoiceStatus, newInvoiceItems, nextId, budget, phase, storeVars>>

\* x?.toString() || '' of an optional amount: the text of the number
AmountText(e, k) == IF Has(e, k) THEN <<e[k]>> ELSE <<>>
\* Number(text): '' reads as 0
NumberOf(text) == IF text = <<>> THEN 0 ELSE text[1]

handleEdit(entry) ==
  /\ editingId' = entry.id
  /\ IF entry.type = "INVOICE"
     THEN /\ invoiceDate' = entry.date
          /\ invoiceNum' = entry.invoiceNo
          /\ invoiceStatus' =
               (IF Has(entry, "status") /\ entry.status = "PAID" THEN "PAID" ELSE "PENDING")
          /\ newInvoiceItems' =
               (IF Has(entry, "items") /\ Len(entry.items) > 0
                THEN entry.items
                ELSE <<[size |-> StrOrEmpty(entry, "size"),
                        pattern |-> TextOrEmpty(entry, "pattern"),
                        quantity |-> (IF NumOr0(entry, "quantity") = 0 THEN 1
                                      ELSE entry.quantity),
                        unitPrice |-> NumOr0(entry, "unitPrice")]>>)
          /\ isInvoiceModalOpen' = TRUE
          /\ UNCHANGED <<transactionType, transDate, transAmount, transNotes,
                         isTransactionModalOpen>>
     ELSE /\ transactionType' = (IF entry.type = "PAYMENT" THEN "PAYMENT" ELSE "CN")
          /\ transDate' = entry.date
          /\ transAmount' = (IF entry.type = "PAYMENT" THEN AmountText(entry, "paymentAmount")
                             ELSE AmountText(entry, "cnAmount"))
          /\ transNotes' = TextOrEmpty(entry, "notes")
          /\ isTransactionModalOpen' = TRUE
          /\ UNCHANGED <<invoiceDate, invoiceNum, invoiceStatus, newInvoiceItems,
                         isInvoiceModalOpen>>
  /\ UNCHANGED <<entries, filterDate, itemToDelete, nextId, budget, phase, storeVars>>
(***************************************************************************)
(* handleSubmitInvoice                                                     *)
(***************************************************************************)
\* items.map(f).join(', ') for character strings and for text
RECURSIVE JoinChars(_)
JoinChars(ss) ==
  IF ss = <<>> THEN <<>>
  ELSE IF Len(ss) = 1 THEN ss[1]
  ELSE ss[1] \o <<",", " ">> \o JoinChars(Tail(ss))
RECURSIVE JoinText(_)
JoinText(ts) ==
  IF ts = <<>> THEN ""
  ELSE IF Len(ts) = 1 THEN ts[1]
  ELSE ts[1] \o ", " \o JoinText(Tail(ts))

\* The browser's validation of the invoice form (required, min="1").
InvoiceFormValid(date, num, items) ==
  /\ date # <<>>
  /\ num # <<>>
  /\ \A i \in DOMAIN items : items[i].size # <<>> /\ items[i].quantity >= 1

\* Variant: an edit that also rewrites the balance-forward invoices split
\* from the edited entry.
IsEditedOrSplitFrom(entry, editing) ==
  entry.id = editing \/ (Has(entry, "originalRefId") /\ entry.originalRefId = editing)

\* entry.id === editingId, the test of the map in both submit handlers
IsEdited(entry, editing) == entry.id = editing

\* The entry list handleSubmitInvoice sets, from the form's content.
submitInvoice(es, editing, date, num, status, items, n) ==
  LET finalItems    == items
      totalQuantity == SumSeq(finalItems, LAMBDA it : it.quantity)
      rawTotal      == SumSeq(finalItems, LAMBDA it : it.quantity * it.unitPrice)
      totalAmount   == MathRound(rawTotal)
      sizeStr       == JoinChars([i \in DOMAIN finalItems |-> finalItems[i].size])
      patternStr    == JoinText([i \in DOMAIN finalItems |-> finalItems[i].pattern])
  IN  IF editing # Null
      THEN [i \in DOMAIN es |->
              IF IsEdited(es[i], editing)
              THEN Spread(es[i], [date          |-> date,
                                  invoiceNo     |-> num,
                                  size          |-> sizeStr,
                                  pattern       |-> patternStr,
                                  quantity      |-> totalQuantity,
                                  invoiceAmount |-> totalAmount,
                                  items         |-> finalItems,
                                  dueDate       |-> addDays(date, 30),
                                  status        |-> status])
              ELSE es[i]]
      ELSE Append(es, [id            |-> generateId(n),
                       type          |-> "INVOICE",
                       date          |-> date,
                       invoiceNo     |-> num,
                       size          |-> sizeStr,
                       pattern       |-> patternStr,
                       quantity      |-> totalQuantity,
                       unitPrice     |-> 0,
                       invoiceAmount |-> totalAmount,
                       items         |-> finalItems,
                       dueDate       |-> addDays(date, 30),
                       status        |-> status])

\* The user leaves each field as the form shows it or changes it (the change
\* handlers set the field), then submits.
handleSubmitInvoice(date, num, status, items) ==
  /\ isInvoiceModalOpen
  /\ InvoiceFormValid(date, num, items)
  /\ invoiceDate' = date
  /\ invoiceNum' = num
  /\ invoiceStatus' = status
  /\ newInvoiceItems' = items
  /\ entries' = entriesAfterMemo(submitInvoice(entries, editingId, date, num, status,
                                             items, nextId),
                               filterDate)
  /\ nextId' = nextId + (Len(entries') - Len(entries))
  /\ budget' = budget - (nextId' - nextId)
  /\ budget' >= 0
  /\ isInvoiceModalOpen' = FALSE
  /\ editingId' = Null
  /\ phase' = "save"
  /\ UNCHANGED <<filterDate, isTransactionModalOpen, itemToDelete,
                 transactionType, transDate, transAmount, transNotes, storeVars>>

(***************************************************************************)
(* handleSubmitTransaction                                                 *)
(***************************************************************************)
\* Variant: the amount input without its min attribute.
TransactionFormValidNoMin(date, amountText) ==
  /\ date # <<>>
  /\ amountText # <<>>

\* The browser's validation of the transaction form (required, min="0.01").
TransactionFormValid(date, amountText) ==
  /\ date # <<>>
  /\ amountText # <<>>
  /\ NumberOf(amountText) >= MinAmount

\* The entry list handleSubmitTransaction sets, from the form's content.
submitTransaction(es, editing, type, date, amountText, notes, n) ==
  LET amountVal == NumberOf(amountText)
      ids       == <<generateId(n), generateId(n + 1)>>
  IN  IF editing # Null
      THEN [i \in DOMAIN es |->
              IF IsEdited(es[i], editing)
              THEN Spread(Without(es[i], {"paymentAmount", "cnAmount"}),
                          IF type = "PAYMENT"
                          THEN [date |-> date, paymentAmount |-> amountVal, notes |-> notes]
                          ELSE [date |-> date, cnAmount |-> amountVal, notes |-> notes])
              ELSE es[i]]
      ELSE IF type = "PAYMENT"
      THEN Append(es, [id |-> ids[1], type |-> "PAYMENT", date |-> date,
                       invoiceNo |-> <<"-">>, paymentAmount |-> amountVal,
                       notes |-> notes])
      ELSE applyCreditNote(es, amountVal,
                           [id |-> ids[1], type |-> "CN", date |-> date,
                            invoiceNo |-> <<"C", "N", "-", "A", "D", "J">>,
                            cnAmount |-> amountVal, notes |-> notes],
                           ids[2])

\* The array the new list is computed from: the edit and the new payment are
\* functional updates (prev => ..., lines 300 and 322), the new credit note
\* maps the entries of its closure and sets the result (lines 336, 384).
transactionBase ==
  IF editingId = Null /\ transactionType = "CN" THEN closureEntries ELSE entries

handleSubmitTransaction(date, amountText, notes) ==
  /\ isTransactionModalOpen
  /\ TransactionFormValid(date, amountText)
  /\ transDate' = date
  /\ transAmount' = amountText
  /\ transNotes' = notes
  /\ entries' = entriesAfterMemo(submitTransaction(transactionBase, editingId,
                                                 transactionType, date, amountText,
                                                 notes, nextId),
                               filterDate)
  /\ nextId' = nextId + (Len(entries') - Len(transactionBase))
  /\ budget' = budget - (nextId' - nextId)
  /\ budget' >= 0
  /\ isTransactionModalOpen' = FALSE
  /\ editingId' = Null
  /\ phase' = "save"
  /\ captured' = Current
  /\ UNCHANGED <<filterDate, isInvoiceModalOpen, itemToDelete, invoiceDate,
                 invoiceNum, invoiceStatus, newInvoiceItems, transactionType,
                 stored, fileRead>>
\* The submit button pressed on a transaction form the browser finds invalid:
\* no submit event is sent and handleSubmitTransaction does not run. The
\* fields hold what was typed.
blockSubmitTransaction(date, amountText, notes) ==
  /\ isTransactionModalOpen
  /\ ~TransactionFormValid(date, amountText)
  /\ transDate' = date
  /\ transAmount' = amountText
  /\ transNotes' = notes
  /\ UNCHANGED <<entries, filterDate, isInvoiceModalOpen, isTransactionModalOpen,
                 itemToDelete, editingId, invoiceDate, invoiceNum, invoiceStatus,
                 newInvoiceItems, transactionType, nextId, budget, phase, storeVars>>

(***************************************************************************)
(* Delete, the modals' cancel buttons, the month filter                    *)
(***************************************************************************)
initiateDelete(id) ==
  /\ id # Null
  /\ itemToDelete' = id
  /\ UNCHANGED <<entries, filterDate, isInvoiceModalOpen, isTransactionModalOpen,
                 editingId, formVars, nextId, budget, phase, storeVars>>

\* The Cancel button and onClose of the confirmation: setItemToDelete(null)
cancelDelete ==
  /\ itemToDelete # Null
  /\ itemToDelete' = Null
  /\ UNCHANGED <<entries, filterDate, isInvoiceModalOpen, isTransactionModalOpen,
                 editingId, formVars, nextId, budget, phase, storeVars>>

\* Variant: a delete that also removes the balance-forward invoices split
\* from the entry.
removeByIdAndRefs(es, id) ==
  FilterSeq(es, LAMBDA e : e.id # id /\ ~(Has(e, "originalRefId") /\ e.originalRefId = id))

\* currentEntries.filter(item => String(item.id) !== idToRemove)
removeById(es, id) == FilterSeq(es, LAMBDA e : e.id # id)

confirmDelete ==
  /\ itemToDelete # Null
  /\ entries' = entriesAfterMemo(removeById(entries, itemToDelete), filterDate)
  /\ IF editingId # Null /\ editingId = itemToDelete
     THEN /\ editingId' = Null
          /\ isInvoiceModalOpen' = FALSE
          /\ isTransactionModalOpen' = FALSE
     ELSE UNCHANGED <<editingId, isInvoiceModalOpen, isTransactionModalOpen>>
  /\ itemToDelete' = Null
  /\ phase' = "save"
  /\ UNCHANGED <<filterDate, formVars, nextId, budget, storeVars>>

closeInvoiceModal ==
  /\ isInvoiceModalOpen
  /\ isInvoiceModalOpen' = FALSE
  /\ UNCHANGED <<entries, filterDate, isTransactionModalOpen, itemToDelete,
                 editingId, formVars, nextId, budget, phase, storeVars>>

closeTransactionModal ==
  /\ isTransactionModalOpen
  /\ isTransactionModalOpen' = FALSE
  /\ UNCHANGED <<entries, filterDate, isInvoiceModalOpen, itemToDelete,
                 editingId, formVars, nextId, budget, phase, storeVars>>

\* The options of the month select: 'All Time' and the available months.
FilterOptions == {<<>>} \cup Range(availableMonths)

setFilterDate(value) ==
  /\ value # filterDate
  /\ filterDate' = value
  /\ entries' = entriesAfterMemo(entries, value)
  /\ UNCHANGED <<isInvoiceModalOpen, isTransactionModalOpen,
                 itemToDelete, editingId, formVars, nextId, budget, phase, storeVars>>

(***************************************************************************)
(* The application: every handler the page offers. An open Modal covers    *)
(* the page, and the delete confirmation covers an open form.              *)
(***************************************************************************)
\* Effects are run before the next event is handled.
Idle == phase = "idle"
PageActive ==
  Idle /\ ~isInvoiceModalOpen /\ ~isTransactionModalOpen /\ itemToDelete = Null
FormActive == Idle /\ itemToDelete = Null

Next ==
  \/ PageActive /\ openNewInvoice
  \/ PageActive /\ \E type \in {"PAYMENT", "CN"} : openNewTransaction(type)
  \/ PageActive /\ \E i \in DOMAIN filteredEntries : handleEdit(filteredEntries[i])
  \/ FormActive /\ \E date \in {invoiceDate} \cup AppDates,
                      num \in {invoiceNum} \cup AppInvNos,
                      status \in {"PENDING", "PAID"},
                      items \in {newInvoiceItems} \cup AppItemLists :
                     handleSubmitInvoice(date, num, status, items)
  \/ FormActive /\ \E date \in {transDate} \cup AppDates,
                      amountText \in {transAmount} \cup {<<a>> : a \in AppAmounts},
                      notes \in {transNotes} \cup AppNotes :
                     handleSubmitTransaction(date, amountText, notes)
  \/ PageActive /\ \E i \in DOMAIN filteredEntries : initiateDelete(filteredEntries[i].id)
  \/ FormActive /\ (isInvoiceModalOpen \/ isTransactionModalOpen)
       /\ initiateDelete(editingId)
  \/ Idle /\ cancelDelete
  \/ Idle /\ confirmDelete
  \/ FormActive /\ closeInvoiceModal
  \/ FormActive /\ closeTransactionModal
  \/ PageActive /\ \E value \in FilterOptions : setFilterDate(value)
  \/ mountEffects
  \/ saveEffect

Spec == Init /\ [][Next]_vars

(***************************************************************************)
(* Stored ledgers: the entry list the load effect (lines 43-52) or a       *)
(* restored backup (lines 467-490) hands to setEntries. The entries are    *)
(* built by the submit handlers above; the list holds any of them in any   *)
(* order, with distinct ids.                                               *)
(***************************************************************************)
Item(size, quantity, unitPrice) ==
  [size |-> size, pattern |-> "", quantity |-> quantity, unitPrice |-> unitPrice]

NewInvoice(id, date, num, status, items) ==
  submitInvoice(<<>>, Null, date, num, status, items, id)[1]
NewPayment(id, date, amount) ==
  submitTransaction(<<>>, Null, "PAYMENT", date, <<amount>>, "", id)[1]

Jan5 == IsoDate(2024, 1, 5)
Dec31 == IsoDate(2023, 12, 31)

Inv1 == NewInvoice(1, Jan5, InvPrefix \o Decimal(10), "PENDING",
                   <<Item(Chars("r", "1", "6"), 1, Rupee)>>)
Inv2 == NewInvoice(2, Jan5, InvPrefix \o Decimal(2), "PAID",
                   <<Item(Chars("D", "1", "7"), 2, Rupee \div 2),
                     Item(<<"9", "0">>, 1, (3 * Rupee) \div 4)>>)
Inv3 == NewInvoice(3, Jan5, <<"i", "n", "v", "-">> \o Decimal(2), "PENDING",
                   <<Item(<<"X", "L">>, 1, Rupee)>>)
Inv4 == NewInvoice(4, Today, InvPrefix \o Decimal(2), "PENDING",
                   <<Item(Chars("r", "1", "6"), 2, Rupee)>>)
\* Inv1 after a credit note of half a rupee: Inv1 adjusted, the
\* balance-forward invoice (id 6), the credit note (id 5).
SplitLedger ==
  submitTransaction(<<Inv1>>, Null, "CN", Today, <<Rupee \div 2>>, "", 5)
Pay7 == NewPayment(7, Dec31, Rupee \div 2)
\* An invoice of the legacy shape: scalar fields only, no items.
Legacy8 == Without(NewInvoice(8, Today, InvPrefix \o Decimal(10), "PAID",
                              <<Item(<<" ", "d", "1", "7">>, 3, Rupee)>>),
                   {"items"})

StoredEntries ==
  {Inv1, Inv2, Inv3, Inv4, Pay7, Legacy8} \cup Range(SplitLedger)

\* The id of the first entry created after a stored ledger was loaded.
FirstNewId ==
  1 + CHOOSE m \in {e.id : e \in StoredEntries} : \A e \in StoredEntries : e.id <= m

\* The lists of at most n of the entries of U, no id twice.
LedgersOf(U, n) ==
  UNION {{s \in [1..k -> U] : \A i, j \in 1..k : i < j => s[i].id # s[j].id} :
           k \in 0..n}

\* Size codes of line items, and ledgers of one invoice carrying them.
SizeCodes ==
  {Chars("r", "1", "6"), Chars("D", "1", "7"), <<"R", "D">>, <<"d", "r">>,
   <<"9", "0">>, <<"3", ".", "5", "-", "8">>, <<" ">>, <<" ", "d", " ">>,
   <<"X", "L">>, <<"x", "r">>}
SizeLedgers ==
  {<<NewInvoice(1, Jan5, InvPrefix \o Decimal(2), "PENDING",
                <<Item(s1, 1, Rupee), Item(s2, 2, Rupee)>>)>> :
     s1 \in SizeCodes, s2 \in SizeCodes}

(***************************************************************************)
(* The page over a stored ledger: the list, the cards, the month filter    *)
(***************************************************************************)
InitView ==
  /\ entries \in LedgersOf(StoredEntries, MaxViewLen) \cup SizeLedgers
  /\ FirstRender
  /\ nextId = FirstNewId
  /\ budget = 0
  /\ stored = JSONstringify(entries)
  /\ phase = "idle"
  /\ fileRead = NoFile
  /\ captured = Current

NextView == \E value \in FilterOptions : setFilterDate(value)

SpecView == InitView /\ [][NextView]_vars

(***************************************************************************)
(* Recording a payment or a credit note over a stored ledger               *)
(***************************************************************************)
\* The ids one new credit note draws: its own and the balance-forward invoice's.
IdsPerCN == 1 + 1

\* What the user types as amount: half a rupee, one rupee and the amounts
\* next to it, two rupees (the stored invoices are of one and two rupees,
\* the stored balance-forward invoice of half a rupee).
CNAmounts ==
  {Rupee \div 2, Rupee - Tolerance, Rupee - 1, Rupee, Rupee + 1, 2 * Rupee}

\* The stored invoices and payments a new transaction is recorded over.
OpenEntries == StoredEntries \ {Legacy8, SplitLedger[Len(SplitLedger)]}

\* The texts of the amount input: the amounts above, nothing, zero, a
\* negative amount.
TypedAmounts == {<<a>> : a \in CNAmounts \cup {0, -Rupee}} \cup {<<>>}

InitCN ==
  /\ entries \in LedgersOf(OpenEntries, MaxSeedLen)
  /\ FirstRender
  /\ nextId = FirstNewId
  /\ budget = IdsPerCN
  /\ stored = JSONstringify(entries)
  /\ phase = "idle"
  /\ fileRead = NoFile
  /\ captured = Current

\* No form is opened once the ids of the behaviour are used up.
NextCN ==
  \/ PageActive /\ budget > 0 /\ \E type \in {"PAYMENT", "CN"} : openNewTransaction(type)
  \/ FormActive /\ \E amountText \in TypedAmounts :
                     handleSubmitTransaction(transDate, amountText, transNotes)
  \/ FormActive /\ \E amountText \in TypedAmounts :
                     blockSubmitTransaction(transDate, amountText, transNotes)
  \/ saveEffect

SpecCN == InitCN /\ [][NextCN]_vars

(***************************************************************************)
(* The application with its store: any item in localStorage at the start,  *)
(* backup files restored                                                   *)
(***************************************************************************)
\* The ledger of a backup file.
BackupLedger == SplitLedger

\* A stored payment of one rupee: not the amount typed in this specification.
Pay8 == NewPayment(8, Dec31, Rupee)

\* What localStorage holds when the application starts.
StartItems ==
  {NoItem, EmptyText, InvalidText, OtherText, JSONstringify(<<>>),
   JSONstringify(<<Inv2, Pay8>>)}

\* The files the user picks to restore.
BackupFiles == {InvalidText, OtherText, JSONstringify(BackupLedger)}

InitStore ==
  /\ entries = <<>>
  /\ FirstRender
  /\ nextId = FirstNewId
  /\ budget = IdsPerCN
  /\ stored \in StartItems
  /\ phase = "mount"
  /\ fileRead = NoFile
  /\ captured = Current

\* The effects, restore, and the handlers that change the entry list, each
\* form submitted as it is shown but for the amount of a new transaction.
NextStore ==
  \/ mountEffects
  \/ saveEffect
  \/ PageActive /\ \E text \in BackupFiles : handleRestoreJSON(text)
  \/ Idle /\ \E confirmed \in BOOLEAN : fileReaderOnload(confirmed)
  \/ PageActive /\ budget > 0 /\ \E type \in {"PAYMENT", "CN"} : openNewTransaction(type)
  \/ PageActive /\ \E i \in DOMAIN filteredEntries : handleEdit(filteredEntries[i])
  \/ FormActive /\ handleSubmitInvoice(invoiceDate, invoiceNum, invoiceStatus,
                                       newInvoiceItems)
  \/ FormActive /\ \E amountText \in {transAmount} \cup {<<a>> : a \in AppAmounts} :
                     handleSubmitTransaction(transDate, amountText, transNotes)
  \/ PageActive /\ \E i \in DOMAIN filteredEntries : initiateDelete(filteredEntries[i].id)
  \/ Idle /\ cancelDelete
  \/ Idle /\ confirmDelete

SpecStore == InitStore /\ [][NextStore]_vars

(***************************************************************************)
(* Creations only, from an empty ledger: new invoices, payments and credit *)
(* notes, no edit, no delete, no restore.                                  *)
(***************************************************************************)
\* What the user types as amount: a quarter of a rupee, half a rupee (the
\* invoices are of one rupee).
CreateAmounts == {Rupee \div 4, Rupee \div 2}

InitCreate ==
  /\ entries = <<>>
  /\ FirstRender
  /\ nextId = 1
  /\ budget = MaxCreateIds
  /\ stored = JSONstringify(entries)
  /\ phase = "idle"
  /\ fileRead = NoFile
  /\ captured = Current

NextCreate ==
  \/ PageActive /\ budget > 0 /\ openNewInvoice
  \/ PageActive /\ budget > 0 /\ \E type \in {"PAYMENT", "CN"} : openNewTransaction(type)
  \/ FormActive /\ \E num \in AppInvNos, status \in {"PENDING", "PAID"},
                      items \in AppItemLists :
                     handleSubmitInvoice(invoiceDate, num, status, items)
  \/ FormActive /\ \E amountText \in {<<a>> : a \in CreateAmounts} :
                     handleSubmitTransaction(transDate, amountText, transNotes)
  \/ saveEffect

SpecCreate == InitCreate /\ [][NextCreate]_vars

(***************************************************************************)
(* A restore that arrives while the form of a new transaction is open: the *)
(* form may be submitted before the render the restore scheduled has run.  *)
(***************************************************************************)
\* The render scheduled by reader.onload is due.
RenderDue == phase = "save" /\ captured.stale

InitRace ==
  /\ entries \in LedgersOf(OpenEntries, MaxSeedLen - 1)
  /\ FirstRender
  /\ nextId = FirstNewId
  /\ budget = IdsPerCN
  /\ stored = JSONstringify(entries)
  /\ phase = "idle"
  /\ fileRead = NoFile
  /\ captured = Current

NextRace ==
  \/ PageActive /\ \E text \in BackupFiles : handleRestoreJSON(text)
  \/ Idle /\ \E confirmed \in BOOLEAN : fileReaderOnload(confirmed)
  \/ PageActive /\ budget > 0 /\ \E type \in {"PAYMENT", "CN"} : openNewTransaction(type)
  \/ (FormActive \/ (RenderDue /\ itemToDelete = Null))
       /\ \E amountText \in {<<a>> : a \in AppAmounts} :
            handleSubmitTransaction(transDate, amountText, transNotes)
  \/ saveEffect

SpecRace == InitRace /\ [][NextRace]_vars

(***************************************************************************)
(* Editing over a stored ledger, the rows' Edit buttons usable while a     *)
(* form is open: App disables no row button while a modal is open, and a   *)
(* button of the page is activated from the keyboard as well as by click.  *)
(***************************************************************************)
InitEdit ==
  /\ entries \in LedgersOf(OpenEntries, MaxSeedLen - 1)
  /\ FirstRender
  /\ nextId = FirstNewId
  /\ budget = 0
  /\ stored = JSONstringify(entries)
  /\ phase = "idle"
  /\ fileRead = NoFile
  /\ captured = Current

NextEdit ==
  \/ FormActive /\ \E i \in DOMAIN filteredEntries : handleEdit(filteredEntries[i])
  \/ FormActive /\ handleSubmitInvoice(invoiceDate, invoiceNum, invoiceStatus,
                                       newInvoiceItems)
  \/ FormActive /\ handleSubmitTransaction(transDate, transAmount, transNotes)
  \/ FormActive /\ closeInvoiceModal
  \/ FormActive /\ closeTransactionModal
  \/ saveEffect

SpecEdit == InitEdit /\ [][NextEdit]_vars

(***************************************************************************)
(* Properties of the cards and of the visible list                         *)
(***************************************************************************)
\* The sum of a field over the entries of one type that satisfy Counts.
FieldSum(es, type, field, Counts(_)) ==
  SumSeq(es, LAMBDA e : IF e.type = type /\ Counts(e) THEN NumOr0(e, field) ELSE 0)

Unreferenced(e) == ~Has(e, "originalRefId")
IsBalanceForward(e) == e.type = "INVOICE" /\ Has(e, "originalRefId")

\* Invoices without originalRefId, less payments, less credit notes.
LedgerBalance(es) ==
  FieldSum(es, "INVOICE", "invoiceAmount", Unreferenced)
    - FieldSum(es, "PAYMENT", "paymentAmount", LAMBDA e : TRUE)
    - FieldSum(es, "CN", "cnAmount", LAMBDA e : TRUE)

\* C1: for every entry list and every month filter, none included,
\* stats.outstanding is the sum of invoiceAmount over the invoices without
\* originalRefId, less the sum of the payments, less the sum of the credit
\* notes, each over the entire list; no choice of filter changes it.
C1_OutstandingOverWholeList ==
  /\ stats.outstanding = LedgerBalance(entries)
  /\ \A fd \in FilterOptions :
       statsOf(filteredEntriesOf(entries, fd), entries).outstanding = stats.outstanding

\* A month is selected that hides entries, and the balance of the visible
\* entries alone is another amount.
C1_Witness ==
  /\ filterDate # <<>>
  /\ Len(filteredEntries) < Len(entries)
  /\ LedgerBalance(filteredEntries) # stats.outstanding
  /\ \E i \in DOMAIN entries : IsBalanceForward(entries[i])

\* The entry list without its i-th entry.
DropAt(es, i) == SubSeq(es, 1, i - 1) \o SubSeq(es, i + 1, Len(es))

\* C7, as the code has it: an invoice with originalRefId set contributes
\* nothing to totalInvoiced, qtyPcr, qtyNylon and qty2Wheeler, with a month
\* filter and with none, and nothing to outstanding either: the cards show
\* what they would show without the entry.
C7_BalanceForwardCountsNowhere ==
  \A i \in DOMAIN entries :
    IsBalanceForward(entries[i]) =>
      stats = statsOf(filteredEntriesOf(DropAt(entries, i), filterDate),
                      DropAt(entries, i))

\* A balance-forward invoice of a positive amount is visible under a month filter.
C7_Witness ==
  /\ filterDate # <<>>
  /\ \E i \in DOMAIN filteredEntries :
       /\ IsBalanceForward(filteredEntries[i])
       /\ filteredEntries[i].invoiceAmount > 0
  /\ stats.totalInvoiced > 0

\* C7, as the claim has it: the balance-forward invoice adds nothing to
\* totalInvoiced and the quantities, but its invoiceAmount is part of
\* outstanding.
C7_IncludedInOutstanding ==
  \A i \in DOMAIN entries :
    IsBalanceForward(entries[i]) =>
      LET without == statsOf(filteredEntriesOf(DropAt(entries, i), filterDate),
                             DropAt(entries, i))
      IN  /\ stats.totalInvoiced = without.totalInvoiced
          /\ stats.qtyPcr = without.qtyPcr
          /\ stats.qtyNylon = without.qtyNylon
          /\ stats.qty2Wheeler = without.qty2Wheeler
          /\ stats.outstanding = without.outstanding + entries[i].invoiceAmount

\* The bucket the claim gives a size code, upper-cased and trimmed.
BucketOf(code) ==
  IF "R" \in Range(code) THEN "PCR"
  ELSE IF "D" \in Range(code) THEN "NYLON"
  ELSE IF code # <<>> /\ \A k \in DOMAIN code : ~IsUpper(code[k]) /\ ~IsLower(code[k])
  THEN "2W"
  ELSE "NONE"

\* The quantity the line items of the visible original invoices put in a bucket.
BucketQty(visible, bucket) ==
  SumSeq(visible,
         LAMBDA e :
           IF e.type = "INVOICE" /\ Unreferenced(e)
           THEN SumSeq(itemsToProcess(e),
                       LAMBDA item :
                         IF BucketOf(Trim(ToUpperCase(item.size))) = bucket
                         THEN item.quantity ELSE 0)
           ELSE 0)

\* C9: the quantity of every line item of a visible original invoice goes to
\* exactly one outcome, decided on the size code upper-cased and trimmed: PCR
\* if it contains R; else nylon if it contains D; else 2-wheeler if it is not
\* empty and has no letter; else no bucket. A code with both R and D counts
\* as PCR only, and no quantity is counted in two buckets.
C9_SizeBuckets ==
  /\ stats.qtyPcr = BucketQty(filteredEntries, "PCR")
  /\ stats.qtyNylon = BucketQty(filteredEntries, "NYLON")
  /\ stats.qty2Wheeler = BucketQty(filteredEntries, "2W")
  /\ stats.qtyPcr + stats.qtyNylon + stats.qty2Wheeler
       + BucketQty(filteredEntries, "NONE")
     = SumSeq(filteredEntries,
              LAMBDA e : IF e.type = "INVOICE" /\ Unreferenced(e)
                         THEN SumSeq(itemsToProcess(e), LAMBDA item : item.quantity)
                         ELSE 0)

\* A visible invoice has an item whose code holds both r and d, next to an
\* item that lands in no bucket; only PCR counts a quantity.
C9_Witness ==
  /\ \E i \in DOMAIN filteredEntries :
       /\ filteredEntries[i].type = "INVOICE"
       /\ Has(filteredEntries[i], "items")
       /\ \E k, l \in DOMAIN filteredEntries[i].items :
            /\ filteredEntries[i].items[k].size = <<"d", "r">>
            /\ filteredEntries[i].items[l].size = <<"X", "L">>
  /\ stats.qtyPcr > 0
  /\ stats.qtyNylon = 0
  /\ stats.qty2Wheeler = 0

\* An invoice number as the claim reads it: digit runs as integers, every
\* other character without its case.
RECURSIVE NaturalKey(_)
NaturalKey(s) ==
  IF s = <<>> THEN <<>>
  ELSE IF IsDigit(Head(s))
       THEN LET n == DigitRunLen(s)
            IN  <<[num |-> DigitsValue(SubSeq(s, 1, n))]>>
                  \o NaturalKey(SubSeq(s, n + 1, Len(s)))
  ELSE <<[chr |-> ToUpperCase(<<Head(s)>>)[1]]>> \o NaturalKey(Tail(s))

\* a is before b wherever the claim's words decide it: at the first place
\* the two differ, the smaller integer or the earlier letter; a proper
\* prefix is before its extensions.
Precedes(a, b) ==
  LET ka   == NaturalKey(a)
      kb   == NaturalKey(b)
      n    == IF Len(ka) < Len(kb) THEN Len(ka) ELSE Len(kb)
      diff == {i \in 1..n : ka[i] # kb[i]}
  IN  IF diff = {} THEN Len(ka) < Len(kb)
      ELSE LET d == CHOOSE i \in diff : \A k \in diff : i <= k
               x == ka[d]
               y == kb[d]
           IN  IF Has(x, "num") /\ Has(y, "num") THEN x.num < y.num
               ELSE IF Has(x, "chr") /\ Has(y, "chr") /\ IsUpper(x.chr) /\ IsUpper(y.chr)
               THEN CharCode(x.chr) < CharCode(y.chr)
               ELSE FALSE

PositionOf(es, e) == CHOOSE k \in DOMAIN es : es[k] = e

\* C10: the visible list is in ascending order of date and, among entries of
\* one date, in ascending order of invoiceNo compared numeric-aware and
\* without case (INV-2 before INV-10, never the reverse); entries equal in
\* date and invoiceNo keep the relative order they have in the entry list.
C10_VisibleListSorted ==
  \A i, j \in DOMAIN filteredEntries :
    i < j =>
      LET x == filteredEntries[i]
          y == filteredEntries[j]
      IN  /\ GetTime(x.date) <= GetTime(y.date)
          /\ x.date = y.date => ~Precedes(y.invoiceNo, x.invoiceNo)
          /\ x.date = y.date /\ NaturalKey(x.invoiceNo) = NaturalKey(y.invoiceNo)
               => PositionOf(entries, x) < PositionOf(entries, y)

\* INV-10 was entered before INV-2 on the same day and is shown after it,
\* and the day's inv-2, entered before INV-2, is shown before it.
C10_Witness ==
  \E i, j, k \in DOMAIN filteredEntries :
    /\ i < j /\ j < k
    /\ filteredEntries[i].invoiceNo = <<"i", "n", "v", "-", "2">>
    /\ filteredEntries[j].invoiceNo = <<"I", "N", "V", "-", "2">>
    /\ filteredEntries[k].invoiceNo = <<"I", "N", "V", "-", "1", "0">>
    /\ filteredEntries[i].date = filteredEntries[k].date
    /\ PositionOf(entries, filteredEntries[k]) < PositionOf(entries, filteredEntries[i])

(***************************************************************************)
(* Properties of a new credit note                                         *)
(***************************************************************************)
StatusOf(e) == IF Has(e, "status") THEN e.status ELSE "NONE"

\* The step that submits the form of a new credit note.
NewCNStep ==
  /\ isTransactionModalOpen
  /\ editingId = Null
  /\ transactionType = "CN"
  /\ entries' # entries

\* The amount the submitted form holds.
SubmittedAmount == NumberOf(transAmount')

PendingPositions(es) ==
  {i \in DOMAIN es : es[i].type = "INVOICE" /\ StatusOf(es[i]) = "PENDING"}

\* The pending invoice of the earliest date, the first in the list among those.
FirstPending(es) ==
  CHOOSE i \in PendingPositions(es) :
    \A j \in PendingPositions(es) :
      \/ GetTime(es[i].date) < GetTime(es[j].date)
      \/ es[i].date = es[j].date /\ i <= j

\* The entries a step has added at the end of the list.
Added == SubSeq(entries', Len(entries) + 1, Len(entries'))
AddedOfType(type) == {k \in DOMAIN Added : Added[k].type = type}

\* A credit note entry created after the stored ledger was loaded.
HasNewCN == \E k \in DOMAIN entries : entries[k].type = "CN" /\ entries[k].id >= FirstNewId

\* C2: a new credit note of amount a, when the first pending invoice T has an
\* invoiceAmount above a by at least 0.01, sets T's status to ADJUSTED,
\* creates exactly one new invoice, with invoiceNo T.invoiceNo + "-BAL",
\* invoiceAmount T.invoiceAmount - a, status PENDING and originalRefId T.id,
\* appends exactly one CN entry with cnAmount a, and makes the list 2 longer.
C2_SmallerCreditNote ==
  [][NewCNStep /\ PendingPositions(entries) # {}
       /\ entries[FirstPending(entries)].invoiceAmount - SubmittedAmount >= Tolerance
     => LET t == FirstPending(entries)
            T == entries[t]
        IN  /\ StatusOf(entries'[t]) = "ADJUSTED"
            /\ Len(entries') = Len(entries) + 2
            /\ Cardinality(AddedOfType("INVOICE")) = 1
            /\ \A k \in AddedOfType("INVOICE") :
                 /\ Added[k].invoiceNo = T.invoiceNo \o <<"-", "B", "A", "L">>
                 /\ Added[k].invoiceAmount = T.invoiceAmount - SubmittedAmount
                 /\ StatusOf(Added[k]) = "PENDING"
                 /\ Has(Added[k], "originalRefId")
                 /\ Added[k].originalRefId = T.id
            /\ Cardinality(AddedOfType("CN")) = 1
            /\ \A k \in AddedOfType("CN") : Added[k].cnAmount = SubmittedAmount]_vars

\* A new credit note stands last, behind a new balance-forward invoice whose
\* amount is 0.01: what is left of an adjusted invoice 0.01 above the note.
C2_Witness ==
  /\ Len(entries) >= 3
  /\ LET cn  == entries[Len(entries)]
         bal == entries[Len(entries) - 1]
     IN  /\ cn.type = "CN" /\ cn.id >= FirstNewId
         /\ IsBalanceForward(bal) /\ bal.id >= FirstNewId
         /\ bal.invoiceAmount = Tolerance
         /\ \E i \in DOMAIN entries :
              /\ entries[i].id = bal.originalRefId
              /\ StatusOf(entries[i]) = "ADJUSTED"
              /\ entries[i].invoiceAmount = cn.cnAmount + Tolerance

\* C3: a new credit note whose amount is within 0.01 of the first pending
\* invoice's invoiceAmount sets that invoice's status to PAID, creates no
\* balance-forward invoice and appends exactly one CN entry: the list grows
\* by exactly 1.
C3_EqualCreditNote ==
  [][NewCNStep /\ PendingPositions(entries) # {}
       /\ Abs(SubmittedAmount - entries[FirstPending(entries)].invoiceAmount) < Tolerance
     => /\ StatusOf(entries'[FirstPending(entries)]) = "PAID"
        /\ Len(entries') = Len(entries) + 1
        /\ AddedOfType("INVOICE") = {}
        /\ Cardinality(AddedOfType("CN")) = 1]_vars

\* A new credit note has settled an invoice whose amount is 0.005 above it.
C3_Witness ==
  /\ HasNewCN
  /\ budget = IdsPerCN - 1
  /\ \E i \in DOMAIN entries :
       /\ entries[i].type = "INVOICE"
       /\ StatusOf(entries[i]) = "PAID"
       /\ TextOrEmpty(entries[i], "notes") = " [Settled by CN]"
       /\ entries[i].invoiceAmount = entries[Len(entries)].cnAmount + 1

\* C4: a new credit note whose amount exceeds the first pending invoice's
\* invoiceAmount sets that invoice's status to PAID, creates no
\* balance-forward invoice and leaves the status of every other invoice,
\* the other PENDING ones included, as it was.
C4_LargerCreditNote ==
  [][NewCNStep /\ PendingPositions(entries) # {}
       /\ SubmittedAmount - entries[FirstPending(entries)].invoiceAmount >= Tolerance
     => /\ StatusOf(entries'[FirstPending(entries)]) = "PAID"
        /\ AddedOfType("INVOICE") = {}
        /\ \A i \in DOMAIN entries \ {FirstPending(entries)} :
             entries[i].type = "INVOICE" => StatusOf(entries'[i]) = StatusOf(entries[i])]_vars

\* A new credit note of two rupees has settled an invoice of one rupee, and
\* another invoice is still PENDING.
C4_Witness ==
  /\ HasNewCN
  /\ budget = IdsPerCN - 1
  /\ entries[Len(entries)].cnAmount = 2 * Rupee
  /\ \E i, j \in DOMAIN entries :
       /\ entries[i].type = "INVOICE"
       /\ StatusOf(entries[i]) = "PAID"
       /\ TextOrEmpty(entries[i], "notes") = " [Settled by CN]"
       /\ entries[i].invoiceAmount = Rupee
       /\ entries[j].type = "INVOICE"
       /\ StatusOf(entries[j]) = "PENDING"

\* C5: with no INVOICE entry of status PENDING in the list, a new credit note
\* of any amount yields the original entries unchanged followed by exactly
\* one new CN entry; no invoice is changed, no balance-forward invoice made.
C5_NoPendingInvoice ==
  [][NewCNStep /\ PendingPositions(entries) = {}
     => /\ Len(entries') = Len(entries) + 1
        /\ SubSeq(entries', 1, Len(entries)) = entries
        /\ entries'[Len(entries')].type = "CN"
        /\ entries'[Len(entries')].cnAmount = SubmittedAmount]_vars

\* A new credit note stands behind invoices none of which is PENDING, and
\* none of which a credit note has settled.
C5_Witness ==
  /\ HasNewCN
  /\ budget = IdsPerCN - 1
  /\ entries[Len(entries)].type = "CN"
  /\ \E i \in DOMAIN entries : entries[i].type = "INVOICE"
  /\ \A i \in DOMAIN entries :
       entries[i].type = "INVOICE" =>
         /\ StatusOf(entries[i]) # "PENDING"
         /\ TextOrEmpty(entries[i], "notes") # " [Settled by CN]"

\* C6: the invoice a new credit note is applied to is the PENDING invoice of
\* the earliest date and, among the PENDING invoices of that date, the first
\* in the entry list; no entry that is not a PENDING invoice is the target.
C6_TargetIsFirstPending ==
  [][NewCNStep /\ PendingPositions(entries) # {}
     => {i \in DOMAIN entries : entries'[i] # entries[i]} = {FirstPending(entries)}]_vars

\* A new credit note has settled an invoice that stands in the list behind a
\* PENDING invoice of a later date and behind a payment of an earlier date.
C6_Witness ==
  /\ HasNewCN
  /\ \E h, i, j \in DOMAIN entries :
       /\ h < j /\ i < j
       /\ entries[h].type = "PAYMENT"
       /\ GetTime(entries[h].date) < GetTime(entries[j].date)
       /\ entries[i].type = "INVOICE"
       /\ StatusOf(entries[i]) = "PENDING"
       /\ GetTime(entries[j].date) < GetTime(entries[i].date)
       /\ entries[j].type = "INVOICE"
       /\ TextOrEmpty(entries[j], "notes") = " [Settled by CN]"

(***************************************************************************)
(* Properties of the status field over the whole application               *)
(***************************************************************************)
\* C8: over any sequence of operations the status of an existing invoice
\* changes only from PENDING to PAID or from PENDING to ADJUSTED, an invoice
\* that is PAID or ADJUSTED never becomes PENDING again, and PAYMENT and CN
\* entries never get a status. Stated for the steps in which the status
\* field of the invoice form is left as the form shows it, the case the
\* claim names.
C8_StatusOnlyForward ==
  [][invoiceStatus' = invoiceStatus
     => \A i \in DOMAIN entries, j \in DOMAIN entries' :
          entries[i].id = entries'[j].id =>
            /\ entries[i].type = "INVOICE" =>
                 \/ StatusOf(entries'[j]) = StatusOf(entries[i])
                 \/ /\ StatusOf(entries[i]) = "PENDING"
                    /\ StatusOf(entries'[j]) \in {"PAID", "ADJUSTED"}
            /\ entries'[j].type \in {"PAYMENT", "CN"} => ~Has(entries'[j], "status")]_vars

(***************************************************************************)
(* Properties of the month filter                                          *)
(***************************************************************************)
\* The date string starts with the filter key; no key, every date does.
MatchesFilter(e, fd) ==
  fd = <<>> \/ (Len(e.date) >= Len(fd) /\ SubSeq(e.date, 1, Len(fd)) = fd)

Occurrences(s, e) == Cardinality({i \in DOMAIN s : s[i] = e})

\* C11: with a month filter set the visible list holds exactly the entries
\* whose date string starts with the filter key, each once; with no filter
\* it holds every entry of the entry list once. Computing the visible list
\* changes neither the content nor the order of the entry list.
C11_VisibleIsTheFilteredList ==
  /\ [](/\ \A k \in DOMAIN entries :
             Occurrences(filteredEntries, entries[k])
               = IF MatchesFilter(entries[k], filterDate)
                 THEN Occurrences(entries, entries[k]) ELSE 0
        /\ Len(filteredEntries)
             = Cardinality({k \in DOMAIN entries : MatchesFilter(entries[k], filterDate)}))
  /\ [][entries' = entries]_vars

\* A month is selected: two or more entries are visible, in another order
\* than the entry list has them, and an entry of another month is hidden.
C11_Witness ==
  /\ filterDate # <<>>
  /\ Len(filteredEntries) >= 2
  /\ Len(filteredEntries) < Len(entries)
  /\ \E i, j \in DOMAIN filteredEntries :
       /\ i < j
       /\ PositionOf(entries, filteredEntries[j]) < PositionOf(entries, filteredEntries[i])

(***************************************************************************)
(* Properties of the transaction form's validation                         *)
(***************************************************************************)
\* C12: a new payment or a new credit note submitted with a non-positive
\* amount (zero, negative, or an empty input read as 0) is rejected before
\* the credit-note logic runs: the entry list is unchanged, no PAYMENT or CN
\* entry is appended and no invoice changes its status.
C12_NonPositiveAmountRejected ==
  [][isTransactionModalOpen /\ editingId = Null /\ NumberOf(transAmount') <= 0
     => entries' = entries]_vars

\* The form of a new credit note is open over a ledger with a pending
\* invoice, and a negative amount has been typed and submitted.
C12_Witness ==
  /\ isTransactionModalOpen
  /\ editingId = Null
  /\ transactionType = "CN"
  /\ transAmount # <<>>
  /\ NumberOf(transAmount) < 0
  /\ PendingPositions(entries) # {}

(***************************************************************************)
(* Properties of the store: restore, loading and saving                    *)
(***************************************************************************)
\* The step in which the file picked for a restore has been read.
FileLoaded == fileRead # NoFile /\ fileRead' = NoFile

\* C13: a restore replaces the entry list only when the file's text parses
\* and the parsed value is a list (and the user confirms), and then the new
\* list is the parsed one; when the text does not parse or is not a list the
\* entry list is left exactly as it was. Picking the file changes nothing.
C13_RestoreOnlyOfAList ==
  [][/\ FileLoaded /\ Parses(fileRead) /\ IsArrayText(fileRead)
          => entries' \in {entries, fileRead.items}
     /\ FileLoaded /\ ~(Parses(fileRead) /\ IsArrayText(fileRead))
          => entries' = entries
     /\ fileRead = NoFile /\ fileRead' # NoFile => entries' = entries]_vars

\* A confirmed restore has put the backup's ledger in the place of another
\* list, and the save that follows it has not run yet.
C13_Witness ==
  /\ entries = BackupLedger
  /\ phase = "save"
  /\ fileRead = NoFile
  /\ stored # JSONstringify(entries)

\* C14: on startup, when the stored value is absent, does not parse, or
\* parses to something that is not a list, loading leaves the empty entry
\* list and every later computation (visible list, stats, available months)
\* completes: no render fails. The stored values of InitStore that are lists
\* never make a render fail, so a failed render is one after such a value.
C14_LoadingNeverFails == phase # "crashed"

\* C15: after every change of the entry list (create, edit, delete, credit
\* note, restore) the save runs with the complete current list: whenever no
\* save is pending, the stored text is the text of an array whose items are
\* the current entries, in their order.
C15_StoredIsTheEntryList ==
  phase = "idle" => stored.json = "array" /\ stored.items = entries

\* An entry created in this session has been saved along with older ones.
C15_Witness ==
  /\ phase = "idle"
  /\ Len(entries) >= 2
  /\ \E i \in DOMAIN entries : entries[i].id = FirstNewId
  /\ stored.json = "array"
  /\ Len(stored.items) = Len(entries)

(***************************************************************************)
(* Properties of the entries' fields                                       *)
(***************************************************************************)
\* The amount field of each kind of entry.
AmountField(type) ==
  IF type = "INVOICE" THEN "invoiceAmount"
  ELSE IF type = "PAYMENT" THEN "paymentAmount" ELSE "cnAmount"

\* C16: in every state reached through create, edit, credit-note and delete
\* operations each entry carries the amount field of its own kind and no
\* other (an INVOICE invoiceAmount, a PAYMENT paymentAmount, a CN cnAmount),
\* also after an edit form was submitted while editingId referred to an
\* entry of another kind.
C16_AmountFieldOfItsKind ==
  \A i \in DOMAIN entries :
    \A k \in {"invoiceAmount", "paymentAmount", "cnAmount"} :
      Has(entries[i], k) <=> k = AmountField(entries[i].type)

\* C17: in every reachable state every invoice with originalRefId set refers
\* to an invoice that is present in the entry list (the invoice it was split
\* from). (The claim's other part, that the status of such an invoice is
\* PENDING when it is created, is part of C20's formula.)
C17_OriginalIsPresent ==
  \A i \in DOMAIN entries :
    Has(entries[i], "originalRefId") =>
      \E j \in DOMAIN entries :
        /\ entries[j].type = "INVOICE"
        /\ entries[j].id = entries[i].originalRefId

(***************************************************************************)
(* Properties of delete                                                    *)
(***************************************************************************)
\* The steps that end the delete confirmation: by its confirm button (a save
\* follows) and by its cancel button.
DeleteConfirmed == itemToDelete # Null /\ itemToDelete' = Null /\ phase' = "save"
DeleteCancelled == itemToDelete # Null /\ itemToDelete' = Null /\ phase' = phase

\* The positions of the entries a delete of id keeps, and the n-th of them.
KeptPositions(es, id) == {k \in DOMAIN es : es[k].id # id}
NthKept(es, id, n) ==
  CHOOSE k \in KeptPositions(es, id) :
    Cardinality({x \in KeptPositions(es, id) : x <= k}) = n

\* C18: confirming a delete removes exactly the entries whose id is the
\* selected id and leaves every other entry unchanged and in the same
\* relative order; when no entry has that id the entry list is unchanged;
\* cancelling the confirmation leaves the entry list unchanged.
C18_DeleteRemovesTheSelectedId ==
  [][/\ DeleteConfirmed =>
          /\ Len(entries') = Cardinality(KeptPositions(entries, itemToDelete))
          /\ \A n \in DOMAIN entries' :
               entries'[n] = entries[NthKept(entries, itemToDelete, n)]
          /\ (\A k \in DOMAIN entries : entries[k].id # itemToDelete)
               => entries' = entries
     /\ DeleteCancelled => entries' = entries]_vars

\* A delete has been confirmed and not yet saved: the list is the saved one
\* without one of its entries, which was not the last.
C18_Witness ==
  /\ phase = "save"
  /\ itemToDelete = Null
  /\ stored.json = "array"
  /\ \E k \in 1..(Len(stored.items) - 1) : entries = DropAt(stored.items, k)

(***************************************************************************)
(* Properties of the list a new credit note leaves                         *)
(***************************************************************************)
\* The target of a new credit note: the position of the first pending
\* invoice, 0 when no invoice is pending.
TargetPosition(es) == IF PendingPositions(es) = {} THEN 0 ELSE FirstPending(es)

\* The notes of an entry, read as the empty text when it has none.
NotesOf(e) == IF Has(e, "notes") THEN e.notes ELSE ""

\* The markers a credit note of the submitted amount appends.
Markers == {" [Settled by CN]", " [Adj by CN " \o formatCurrency(SubmittedAmount) \o "]"}

\* C19: a new credit note leaves every pre-existing entry other than the
\* target invoice unchanged and all pre-existing entries in their order; on
\* the target only status and notes change, the new notes being the old
\* notes followed by the marker; the new entries are at the end, the CN
\* entry last and the balance-forward invoice, if any, right before it.
C19_CreditNoteFrame ==
  [][NewCNStep =>
       LET t == TargetPosition(entries)
       IN  /\ Len(entries') \in {Len(entries) + 1, Len(entries) + 2}
           /\ \A i \in DOMAIN entries : i # t => entries'[i] = entries[i]
           /\ t # 0 =>
                /\ Without(entries'[t], {"status", "notes"})
                     = Without(entries[t], {"status", "notes"})
                /\ entries'[t].id = entries[t].id
                /\ entries'[t] # entries[t] =>
                     \E mk \in Markers : entries'[t].notes = NotesOf(entries[t]) \o mk
           /\ entries'[Len(entries')].type = "CN"
           /\ entries'[Len(entries')].id = nextId
           /\ Len(entries') = Len(entries) + 2 =>
                /\ IsBalanceForward(entries'[Len(entries') - 1])
                /\ entries'[Len(entries') - 1].id = nextId + 1]_vars

\* A new credit note has settled the stored balance-forward invoice, which
\* had notes of its own: they are kept, with the marker after them; an entry
\* before it and the new CN entry at the end.
C19_Witness ==
  /\ HasNewCN
  /\ Len(entries) >= 3
  /\ entries[Len(entries)].type = "CN"
  /\ \E k \in 2..Len(entries) - 1 :
       /\ entries[k].id = SplitLedger[2].id
       /\ entries[k].status = "PAID"
       /\ entries[k].notes = SplitLedger[2].notes \o " [Settled by CN]"
       /\ SplitLedger[2].notes # ""

(***************************************************************************)
(* Properties of the balance-forward invoice                               *)
(***************************************************************************)
\* The step in which a new credit note adds a balance-forward invoice.
SplitStep == NewCNStep /\ Len(entries') = Len(entries) + 2

\* The balance-forward invoice a split step adds.
NewBalance == entries'[Len(entries') - 1]

\* The fields the claim lists as set afresh on the balance-forward invoice.
OverrideList ==
  {"id", "invoiceNo", "invoiceAmount", "quantity", "unitPrice", "size", "pattern",
   "items", "originalRefId", "status"}

\* quantity 1, unitPrice the balance, size "Balance Forward", pattern "-", no
\* items; PENDING, referring to the target, with a fresh id.
FreshFields(target) ==
  /\ NewBalance.quantity = 1
  /\ NewBalance.unitPrice = target.invoiceAmount - SubmittedAmount
  /\ NewBalance.invoiceAmount = target.invoiceAmount - SubmittedAmount
  /\ Text(NewBalance.size) = "Balance Forward"
  /\ NewBalance.pattern = "-"
  /\ NewBalance.items = <<>>
  /\ NewBalance.status = "PENDING"
  /\ NewBalance.originalRefId = target.id
  /\ NewBalance.id = nextId + 1
  /\ \A i \in DOMAIN entries : entries[i].id # NewBalance.id

\* C20, as the code has it: the balance-forward invoice has quantity 1,
\* unitPrice equal to the balance, size "Balance Forward", pattern "-", no
\* items, status PENDING and originalRefId the target's id; type, date and
\* dueDate are the target's, and it has no field beside these, the override
\* list and notes; its notes are not the target's but the text
\* "Balance after CN adjustment on " followed by the target's invoiceNo.
C20_BalanceForwardFields ==
  [][SplitStep =>
       LET target == entries[TargetPosition(entries)]
       IN  /\ FreshFields(target)
           /\ NewBalance.type = target.type
           /\ NewBalance.date = target.date
           /\ NewBalance.dueDate = target.dueDate
           /\ DOMAIN NewBalance = DOMAIN target \cup {"originalRefId", "notes"}
           /\ \A k \in DOMAIN target \ (OverrideList \cup {"notes"}) :
                NewBalance[k] = target[k]
           /\ NewBalance.notes
                = "Balance after CN adjustment on " \o Text(target.invoiceNo)]_vars

\* C20, as stated: every field outside the override list is the target's,
\* notes among them (the target's notes before or after the credit note's
\* marker was appended).
C20_NotesOfTheTarget ==
  [][SplitStep =>
       LET t == TargetPosition(entries)
       IN  /\ FreshFields(entries[t])
           /\ \A k \in DOMAIN entries[t] \ (OverrideList \cup {"notes"}) :
                NewBalance[k] = entries[t][k]
           /\ NotesOf(NewBalance) \in {NotesOf(entries[t]), NotesOf(entries'[t])}]_vars

\* A new balance-forward invoice stands before the new credit note, with the
\* date and dueDate of the adjusted invoice it refers to and notes that are
\* neither that invoice's notes nor empty.
C20_Witness ==
  /\ Len(entries) >= 3
  /\ entries[Len(entries)].type = "CN"
  /\ LET bal == entries[Len(entries) - 1]
     IN  /\ IsBalanceForward(bal) /\ bal.id >= FirstNewId
         /\ bal.quantity = 1 /\ bal.items = <<>>
         /\ \E i \in DOMAIN entries :
              /\ entries[i].id = bal.originalRefId
              /\ StatusOf(entries[i]) = "ADJUSTED"
              /\ Len(entries[i].items) > 0
              /\ bal.date = entries[i].date
              /\ bal.dueDate = entries[i].dueDate
              /\ bal.notes # NotesOf(entries[i])
              /\ bal.notes # ""

(***************************************************************************)
(* Properties of an edit                                                   *)
(***************************************************************************)
\* The step that submits a form opened by Edit.
EditStep ==
  /\ editingId # Null /\ editingId' = Null
  /\ itemToDelete = Null
  /\ phase' = "save"

\* The positions of the entries an edit is about.
EditedPositions == {k \in DOMAIN entries : entries[k].id = editingId}

\* originalRefId of an entry, Null when it has none.
OriginalRefOf(e) == IF Has(e, "originalRefId") THEN e.originalRefId ELSE Null

\* C21: submitting an edit (invoice form or transaction form) changes at
\* most the one entry whose id is editingId, changes no entry's id, type or
\* originalRefId, and keeps the length and the order of the list; when no
\* entry has that id the list is unchanged. Editing a payment or a credit
\* note changes no invoice's status or amount.
C21_EditChangesOneEntry ==
  [][EditStep =>
       /\ Len(entries') = Len(entries)
       /\ Cardinality(EditedPositions) <= 1
       /\ \A k \in DOMAIN entries :
            /\ k \notin EditedPositions => entries'[k] = entries[k]
            /\ entries'[k].id = entries[k].id
            /\ entries'[k].type = entries[k].type
            /\ OriginalRefOf(entries'[k]) = OriginalRefOf(entries[k])
       /\ EditedPositions = {} => entries' = entries
       /\ (\A k \in EditedPositions : entries[k].type # "INVOICE") =>
            \A j \in DOMAIN entries :
              entries[j].type = "INVOICE" =>
                /\ StatusOf(entries'[j]) = StatusOf(entries[j])
                /\ entries'[j].invoiceAmount = entries[j].invoiceAmount]_vars

\* An edit of the stored payment has been submitted with another amount and
\* not yet saved: the invoice beside it is as it was saved.
C21_Witness ==
  /\ phase = "save"
  /\ editingId = Null
  /\ stored.json = "array"
  /\ Len(entries) = Len(stored.items)
  /\ \E k, j \in DOMAIN entries :
       /\ entries[k].type = "PAYMENT"
       /\ entries[k].id = stored.items[k].id
       /\ entries[k].paymentAmount # stored.items[k].paymentAmount
       /\ entries[j].type = "INVOICE"
       /\ entries[j] = stored.items[j]

(***************************************************************************)
(* Properties of the order of updates                                      *)
(***************************************************************************)
\* The step that submits the form of a new payment or credit note.
NewTransactionStep ==
  /\ isTransactionModalOpen /\ ~isTransactionModalOpen'
  /\ editingId = Null
  /\ nextId' > nextId

\* C22: every mutation is applied to the latest committed entry list: however
\* the user's actions interleave with the restore callback, the list after an
\* operation is what the operation makes of the list the operations before
\* it left, so no operation's effect is lost. This includes a new credit
\* note, computed from the entries its handler captured at render time.
C22_AppliedToLatestList ==
  [][NewTransactionStep =>
       entries' = submitTransaction(entries, Null, transactionType, transDate',
                                    transAmount', transNotes', nextId)]_vars

(***************************************************************************)
(* Properties of the totals a new credit note leaves                       *)
(***************************************************************************)
\* stats.outstanding over the entry list es; the second pass of stats does
\* not read the visible list.
OutstandingOf(es) == statsOf(es, es).outstanding

\* C23: a new credit note of amount a > 0 lowers stats.outstanding by exactly
\* a, whichever branch is taken (no pending invoice, exact match, smaller or
\* larger than the target): neither the target's new status nor the new
\* balance-forward invoice changes outstanding.
C23_OutstandingLoweredByAmount ==
  [][NewCNStep /\ SubmittedAmount > 0 =>
       OutstandingOf(entries') = OutstandingOf(entries) - SubmittedAmount]_vars

\* A new credit note has split an invoice: outstanding is what the entries
\* before the two new ones give, less the credit note's amount, and the new
\* balance-forward invoice has an amount of its own.
C23_Witness ==
  /\ Len(entries) >= 3
  /\ LET cn  == entries[Len(entries)]
         bal == entries[Len(entries) - 1]
         pre == SubSeq(entries, 1, Len(entries) - 2)
     IN  /\ cn.type = "CN" /\ cn.id >= FirstNewId /\ cn.cnAmount > 0
         /\ IsBalanceForward(bal) /\ bal.id >= FirstNewId /\ bal.invoiceAmount > 0
         /\ OutstandingOf(entries) = OutstandingOf(pre) - cn.cnAmount
         /\ OutstandingOf(entries) # 0

(***************************************************************************)
(* Properties of startup                                                   *)
(***************************************************************************)
\* C24: startup never damages the persisted data: when the store holds a
\* well-formed non-empty entry list L at mount, the persisted value is L at
\* every step of startup (the save effect does not overwrite it with the
\* initial empty list before the loaded list is applied), and the loaded
\* entry list is L.
C24_StartupKeepsTheStore ==
  [][phase = "mount" /\ stored.json = "array" /\ stored.items # <<>> =>
       /\ stored' = stored
       /\ entries' = stored.items]_vars

(***************************************************************************)
(* Properties of the chain of balance-forward invoices                     *)
(***************************************************************************)
\* The positions of the balance-forward invoices that refer to the id.
SplitFrom(es, id) ==
  {j \in DOMAIN es : IsBalanceForward(es[j]) /\ es[j].originalRefId = id}

\* C25: after invoice creations, payments and credit notes only (no edit,
\* delete or restore) every invoice with status ADJUSTED has exactly one
\* balance-forward invoice whose originalRefId is its id, and the
\* originalRefId of every balance-forward invoice is the id of an ADJUSTED
\* invoice of the list; a credit note applied to a balance-forward invoice
\* chains the new balance-forward invoice onto it, not onto the root invoice.
C25_OneBalancePerAdjusted ==
  /\ [](/\ \A i \in DOMAIN entries :
             entries[i].type = "INVOICE" /\ StatusOf(entries[i]) = "ADJUSTED" =>
               Cardinality(SplitFrom(entries, entries[i].id)) = 1
        /\ \A j \in DOMAIN entries :
             IsBalanceForward(entries[j]) =>
               \E i \in DOMAIN entries :
                 /\ entries[i].type = "INVOICE"
                 /\ StatusOf(entries[i]) = "ADJUSTED"
                 /\ entries[i].id = entries[j].originalRefId)
  /\ [][SplitStep =>
          NewBalance.originalRefId = entries[TargetPosition(entries)].id]_vars

\* A balance-forward invoice has itself been split: it is ADJUSTED, a second
\* balance-forward invoice refers to it, and it refers to the root invoice.
C25_Witness ==
  \E i, j, k \in DOMAIN entries :
    /\ ~IsBalanceForward(entries[i]) /\ StatusOf(entries[i]) = "ADJUSTED"
    /\ IsBalanceForward(entries[j]) /\ entries[j].originalRefId = entries[i].id
    /\ StatusOf(entries[j]) = "ADJUSTED"
    /\ IsBalanceForward(entries[k]) /\ entries[k].originalRefId = entries[j].id
    /\ StatusOf(entries[k]) = "PENDING"

(***************************************************************************)
(* Properties of the pending amount                                        *)
(***************************************************************************)
\* The sum of invoiceAmount over the PENDING invoices.
PendingSum(es) ==
  FieldSum(es, "INVOICE", "invoiceAmount", LAMBDA e : StatusOf(e) = "PENDING")

Min(a, b) == IF a <= b THEN a ELSE b

\* The pre-existing invoices that a step takes out of the PENDING status.
LeftPending ==
  {i \in PendingPositions(entries) : StatusOf(entries'[i]) # "PENDING"}

\* C26: a new credit note of amount a lowers the sum of invoiceAmount over
\* the PENDING invoices by min(a, target.invoiceAmount), up to the 0.01 of
\* the exact-match test, when an invoice is pending, and by 0 when none is;
\* it never raises that sum and takes at most one invoice out of PENDING.
C26_PendingSumLowered ==
  [][NewCNStep =>
       LET t        == TargetPosition(entries)
           decrease == PendingSum(entries) - PendingSum(entries')
       IN  /\ decrease >= 0
           /\ Cardinality(LeftPending) <= 1
           /\ t = 0 => decrease = 0
           /\ t # 0 =>
                Abs(decrease - Min(SubmittedAmount, entries[t].invoiceAmount))
                  < Tolerance]_vars

\* A new credit note of half a rupee stands behind the balance-forward
\* invoice it has made of an invoice of one rupee, while an invoice of two
\* rupees is still PENDING: the pending amount is two and a half rupees.
C26_Witness ==
  /\ Len(entries) >= 4
  /\ entries[Len(entries)].type = "CN"
  /\ entries[Len(entries)].id >= FirstNewId
  /\ entries[Len(entries)].cnAmount = Rupee \div 2
  /\ IsBalanceForward(entries[Len(entries) - 1])
  /\ entries[Len(entries) - 1].invoiceAmount = Rupee \div 2
  /\ PendingSum(entries) = (5 * Rupee) \div 2
  /\ Cardinality(PendingPositions(entries)) = 2

(***************************************************************************)
(* Properties of the available months                                      *)
(***************************************************************************)
\* The fields of stats that are sums over the visible list.
ScopedFields ==
  {"totalInvoiced", "totalPaid", "totalCN", "qtyPcr", "qtyNylon", "qty2Wheeler"}

\* The sum of a field of stats over the filters the month select offers.
SumOverMonths(field) ==
  LET S[i \in 0..Len(availableMonths)] ==
        IF i = 0 THEN 0
        ELSE S[i - 1]
               + statsOf(filteredEntriesOf(entries, availableMonths[i]), entries)[field]
  IN  S[Len(availableMonths)]

\* C27: when every entry has a date of at least 7 characters, the available
\* months are the distinct 7-character prefixes of the dates, in descending
\* order; every entry is visible under exactly one of them; and the sums of
\* totalInvoiced, totalPaid, totalCN, qtyPcr, qtyNylon and qty2Wheeler over
\* all available-month filters are the values with no filter.
C27_MonthsPartitionTheLedger ==
  (\A i \in DOMAIN entries : Len(entries[i].date) >= 7) =>
    /\ Range(availableMonths) = {SubSeq(entries[i].date, 1, 7) : i \in DOMAIN entries}
    /\ \A i, j \in DOMAIN availableMonths :
         i < j => StrLess(availableMonths[j], availableMonths[i])
    /\ \A i \in DOMAIN entries :
         Cardinality({k \in DOMAIN availableMonths :
                        \E n \in DOMAIN filteredEntriesOf(entries, availableMonths[k]) :
                          filteredEntriesOf(entries, availableMonths[k])[n] = entries[i]})
           = 1
    /\ \A field \in ScopedFields :
         SumOverMonths(field) = statsOf(filteredEntriesOf(entries, <<>>), entries)[field]

\* Three entries in two months, two of them in one month; invoices, a payment
\* and a counted quantity are among them.
C27_Witness ==
  /\ Len(entries) = 3
  /\ Len(availableMonths) = 2
  /\ \A i \in DOMAIN entries : Len(entries[i].date) >= 7
  /\ statsOf(entries, entries).totalInvoiced > 0
  /\ statsOf(entries, entries).totalPaid > 0
  /\ statsOf(entries, entries).qtyPcr > 0
====
